---- MODULE Spec2Model ----
(***************************************************************************)
(* Model of the go-bluesky client's JWT session handling (src/utils.go):   *)
(* Login, the periodic refresher, maybeRefreshJWT and refreshJWT, with the *)
(* jwtLock RWMutex, the capacity-1 jwtAsyncRefresh channel, the clock and  *)
(* the server's answers as the environment.                                *)
(*                                                                         *)
(* Time is counted in minutes.  The zero time.Time is 0 and the clock      *)
(* starts at 1, so the zero time is strictly in the past.                  *)
(***************************************************************************)
EXTENDS Integers, Sequences, FiniteSets, TLC

\* ---------------------------------------------------------------- bounds
MaxTime == 3
MaxIssued == 2

\* The server's collection: at most MaxPages pages of at most MaxPageLen
\* records.  followersCap is the capacity of the followers channel, 100 in
\* the code, taken small enough for the collection to fill it.
MaxPages == 2
MaxPageLen == 2
followersCap == 2
\* The largest follower count a profile shows.
MaxHint == 3

\* ------------------------------------------------------ program constants
errcCap == 1
jwtAsyncRefreshThreshold == 5
jwtSyncRefreshThreshold == 2
refresherInterval == 1
asyncRefreshCap == 1
appPassScope == "com.atproto.appPass"

\* ------------------------------------------------------------ environment
Callers == {"c1", "c2"}
Refresher == "refresher"
Tasks == {"t1", "t2"}
SyncThreads == Callers \cup {Refresher}
\* The refresher goroutine that a second Login starts.
Refresher2 == "refresher2"
Refreshers == {Refresher, Refresher2}
Threads == SyncThreads \cup Tasks \cup Refreshers
NoThread == "none"

\* Lifetimes (minutes) of the tokens the server hands out: an access token
\* is stale or fresh when issued; the refresh token of a login may be good
\* for no longer than the moment it is issued, that of a refreshed session
\* is long-lived.
AccessLifetimes == {1, 7}
LoginRefreshLifetimes == {0, 9}
RefreshedLifetimes == {9}

\* A JWT: the session it was issued in, its exp claim, its scope claim,
\* whether it parses.
NoToken == [sid |-> 0, exp |-> 0, scope |-> "", wf |-> FALSE]
NilAuth == [AccessJwt |-> NoToken, RefreshJwt |-> NoToken,
            Handle |-> "", Did |-> ""]

\* The account the tests log in to.
testHandle == "alice.test"
testDid == "did:plc:alice"

Token(sid, exp, scope, wf) == [sid |-> sid, exp |-> exp, scope |-> scope, wf |-> wf]

\* What the server may answer to a createSession / refreshSession call made
\* at time t as its sid-th session: any pair of lifetimes, or a pair with
\* one token that does not parse.
SessionOutputs(sid, t, scope, lifetimes) ==
    { [AccessJwt |-> Token(sid, t + a, scope, TRUE),
       RefreshJwt |-> Token(sid, t + r, "", TRUE),
       Handle |-> testHandle, Did |-> testDid] :
          a \in AccessLifetimes, r \in lifetimes }
    \cup
    { [AccessJwt |-> Token(sid, t + 7, scope, FALSE),
       RefreshJwt |-> Token(sid, t + 9, "", TRUE),
       Handle |-> testHandle, Did |-> testDid],
      [AccessJwt |-> Token(sid, t + 7, scope, TRUE),
       RefreshJwt |-> Token(sid, t + 9, "", FALSE),
       Handle |-> testHandle, Did |-> testDid] }

\* &xrpc.AuthInfo{AccessJwt, RefreshJwt, Handle, Did} built from a session
AuthInfo(sess) ==
    [AccessJwt |-> sess.AccessJwt, RefreshJwt |-> sess.RefreshJwt,
     Handle |-> sess.Handle, Did |-> sess.Did]

\* The sentinel errors of Login, and errors.Is on what Login returns:
\* "unauthorized" is fmt.Errorf("%w: %v", ErrLoginUnauthorized, err),
\* "master" is fmt.Errorf("%w: %w", ErrLoginUnauthorized, ErrMasterCredentials).
ErrLoginUnauthorized == "unauthorized"
ErrMasterCredentials == "master credentials used"

Unwrap(err) ==
    IF err = "unauthorized" THEN {ErrLoginUnauthorized}
    ELSE IF err = "master" THEN {ErrLoginUnauthorized, ErrMasterCredentials}
    ELSE {}

ErrorsIs(err, target) == err = target \/ target \in Unwrap(err)

\* What the server said to createSession: nothing yet, no, or a session.
NoAnswer == [given |-> FALSE, accepted |-> FALSE, sess |-> NilAuth]
Rejection == [given |-> TRUE, accepted |-> FALSE, sess |-> NilAuth]
Acceptance(sess) == [given |-> TRUE, accepted |-> TRUE, sess |-> sess]

\* jwt.NewParser().ParseUnverified + Claims.GetExpirationTime
ParseOK(tok) == tok.wf
GetExpirationTime(tok) == tok.exp

\* ------------------------------------------------------------------ state
VARIABLES
    now,               \* time.Now()
    auth,              \* c.client.Auth
    jwtCurrentExpire,  \* c.jwtCurrentExpire
    jwtRefreshExpire,  \* c.jwtRefreshExpire
    jwtAsyncRefresh,   \* c.jwtAsyncRefresh: whether made, and the items queued
    jwtLock,           \* c.jwtLock
    th,                \* the frame of every goroutine inside maybeRefreshJWT/refreshJWT
    wakeAt,            \* when the refresher's time.After fires (0: not waiting)
    login,             \* the goroutine calling Login
    last,              \* what the call returning in this very step observed and did
    issued,            \* sessions issued by the server that the client took over
    jwtRefresherStop,  \* c.jwtRefresherStop
    closer,            \* the goroutine calling Close
    pages,             \* the follower records the server holds, page by page
    ctxDone,           \* whether the ctx of the streaming call is cancelled
    followers,         \* the followers channel of ResolveFollowersStreaming
    errc,              \* its errc channel
    prod,              \* its goroutine
    cons,              \* the goroutine reading the two channels
    call               \* the CustomCall or FetchProfile of every caller

jwtVars == <<now, auth, jwtCurrentExpire, jwtRefreshExpire, jwtAsyncRefresh,
             jwtLock, th, wakeAt, login, last, issued>>
closeVars == <<jwtRefresherStop, closer>>
streamVars == <<pages, ctxDone, followers, errc, prod, cons>>

vars == <<jwtVars, closeVars, streamVars, call>>

store == <<auth, jwtCurrentExpire, jwtRefreshExpire>>

\* ---------------------------------------------------------------- frames
\* The session state that a remaining validity of rem minutes stands for.
SessionState(rem) ==
    IF rem > jwtAsyncRefreshThreshold THEN "Fresh"
    ELSE IF rem > jwtSyncRefreshThreshold THEN "NearExpiry"
    ELSE "Stale"

\* pc: where the goroutine is.  validAsync, validSync, expires, refClient,
\* sess: the locals of maybeRefreshJWT and refreshJWT.  The rest records what
\* the call met and did so far: obs, the session state when maybeRefreshJWT
\* read the expiry, past, whether the access token had expired by then,
\* logged, whether Login had returned nil by then, and dead, whether the
\* client was logged in with a refresh token already dead;
\* chk, the session state when refreshJWT began; ref, whether the refresh
\* token was dead when refreshJWT tested it; hooks, the jwtRefreshHook
\* calls; calls, the refreshSession requests sent; spawned, the background
\* goroutines started.
Frame(pc) ==
    [pc |-> pc, validAsync |-> FALSE, validSync |-> FALSE, expires |-> 0,
     refClient |-> NoToken, sess |-> NilAuth,
     obs |-> "none", past |-> FALSE, logged |-> FALSE, dead |-> FALSE,
     chk |-> "none", ref |-> "none",
     hooks |-> << >>, calls |-> 0, spawned |-> 0]

\* Whether a refresh token with rem minutes left can still be used.
RefreshState(rem) == IF rem < 0 THEN "dead" ELSE "live"

IsAsync(p) == p \in Tasks

\* A background goroutine that ends without freeing the slot.
ReturnedNoRelease(p) ==
    IF p \in Tasks THEN Frame("off")
    ELSE IF p = Refresher THEN Frame("sleep")
    ELSE Frame("idle")

\* Where a goroutine is once its call has returned: the background goroutine
\* is about to free the slot, the refresher is in its select, a caller is
\* back in its own code.
Returned(p) ==
    IF IsAsync(p) THEN Frame("t_release")
    ELSE IF p \in Refreshers THEN Frame("sleep")
    ELSE Frame("idle")

\* The record of a call of p that returns err from frame f; got is the exp
\* claim of the access token the server sent, 0 if it sent none.
Outcome(p, f, err) ==
    [who |-> p, obs |-> f.obs, past |-> f.past, logged |-> f.logged,
     dead |-> f.dead, chk |-> f.chk, ref |-> f.ref,
     hooks |-> f.hooks, calls |-> f.calls, spawned |-> f.spawned,
     got |-> f.sess.AccessJwt.exp, ret |-> err]

NoOutcome == Outcome(NoThread, Frame("idle"), "none")

\* The refresher's select starts time.After(time.Minute) when its call returns.
Timer(p) == IF p = Refresher THEN now + refresherInterval ELSE wakeAt

\* ------------------------------------------------------------- channels
\* The nil channel of a client that never logged in, and make(chan struct{}, 1).
NilChan == [made |-> FALSE, n |-> 0]
MakeChan == [made |-> TRUE, n |-> 0]

\* ---------------------------------------------------------- sync.RWMutex
\* w is the goroutine holding the lock for writing, r are the goroutines
\* holding it for reading.
Unlocked == [w |-> NoThread, r |-> {}]

CanRLock == jwtLock.w = NoThread
RLocked(p) == [jwtLock EXCEPT !.r = @ \cup {p}]
RUnlocked(p) == [jwtLock EXCEPT !.r = @ \ {p}]
CanLock == jwtLock.w = NoThread /\ jwtLock.r = {}
Locked(p) == [jwtLock EXCEPT !.w = p]
WUnlocked == [jwtLock EXCEPT !.w = NoThread]

\* ------------------------------------------------------ Close, streaming
\* c.jwtRefresherStop: nil until Login makes it; unbuffered, so it holds
\* nothing, and offer says whether Close stands in its send.
NilStop == [made |-> FALSE, offer |-> FALSE]
MakeStop == [made |-> TRUE, offer |-> FALSE]

\* Nobody has called Close.
NotClosing == [pc |-> "idle", at |-> "none"]

\* A channel holding values: not made, or with its queue and whether closed.
NilQueue == [made |-> FALSE, buf |-> << >>, closed |-> FALSE]
MakeQueue == [made |-> TRUE, buf |-> << >>, closed |-> FALSE]

\* No streaming call has been made.
NoProducer == [pc |-> "off"]
NoConsumer == [pc |-> "off"]

\* The xrpc.Client a CustomCall builds: ref names the AuthInfo its Auth
\* field points to, by the session that AuthInfo was made for (0: nil), and
\* Auth is what that AuthInfo holds.
NilHandle == [ref |-> 0, Auth |-> NilAuth]

\* A caller outside CustomCall and FetchProfile.  op, pc: the operation and
\* where it stands; dangling: the client CustomCall builds; the rest
\* records: ensured, whether the operation has called maybeRefreshJWT;
\* logged, whether Login had returned nil when it began; built, what the
\* handle held when the callback was invoked; stale, whether its access
\* token had expired by then; used, the access token a request was sent with.
NoCall ==
    [op |-> "none", pc |-> "idle", dangling |-> NilHandle,
     ensured |-> FALSE, logged |-> FALSE, built |-> NilAuth,
     stale |-> FALSE, used |-> NoToken]

\* ------------------------------------------------------------------- Init
Init ==
    /\ now = 1
    /\ auth = NilAuth
    /\ jwtCurrentExpire = 0
    /\ jwtRefreshExpire = 0
    /\ jwtAsyncRefresh = NilChan
    /\ jwtLock = Unlocked
    /\ th = [p \in Threads |->
                IF p \in Callers THEN Frame("idle") ELSE Frame("off")]
    /\ wakeAt = 0
    /\ login = [pc |-> "idle", sess |-> NilAuth, current |-> 0, refresh |-> 0,
                ret |-> "none", answer |-> NoAnswer]
    /\ last = NoOutcome
    /\ issued = 0
    /\ jwtRefresherStop = NilStop
    /\ closer = NotClosing
    /\ pages = << >>
    /\ ctxDone = FALSE
    /\ followers = NilQueue
    /\ errc = NilQueue
    /\ prod = NoProducer
    /\ cons = NoConsumer
    /\ call = [p \in Callers |-> NoCall]

\* ------------------------------------------------------------------ clock
\* The clock is started by the first Login the client accepts: until then
\* both expiries are the zero time, whatever the clock shows.
Tick ==
    /\ now < MaxTime
    /\ auth # NilAuth
    /\ now' = now + 1
    /\ last' = NoOutcome
    /\ UNCHANGED <<closeVars, streamVars, call, auth, jwtCurrentExpire, jwtRefreshExpire, jwtAsyncRefresh,
                   jwtLock, th, wakeAt, login, issued>>

\* ------------------------------------------------------------------ Login
\* Login sends createSession.
LoginSend ==
    /\ login.pc = "idle"
    /\ issued < MaxIssued
    /\ login' = [login EXCEPT !.pc = "l_wait", !.ret = "none",
                               !.answer = NoAnswer]
    /\ last' = NoOutcome
    /\ UNCHANGED <<closeVars, streamVars, call, now, auth, jwtCurrentExpire, jwtRefreshExpire,
                   jwtAsyncRefresh, jwtLock, th, wakeAt, issued>>

\* The server rejects the handle or the password.
LoginRejected ==
    /\ login.pc = "l_wait"
    /\ login' = [login EXCEPT !.pc = "idle", !.ret = "unauthorized",
                               !.answer = Rejection]
    /\ last' = NoOutcome
    /\ UNCHANGED <<closeVars, streamVars, call, now, auth, jwtCurrentExpire, jwtRefreshExpire,
                   jwtAsyncRefresh, jwtLock, th, wakeAt, issued>>

\* Login's checks without the one on the scope claim.
LoginVerdictAnyScope(sess) ==
    IF ~ParseOK(sess.AccessJwt) THEN "decode"
    ELSE IF ~ParseOK(sess.RefreshJwt) THEN "decode"
    ELSE "nil"

\* The outcome of Login's checks on the session the server returned.
LoginVerdict(sess) ==
    IF ~ParseOK(sess.AccessJwt) THEN "decode"
    ELSE IF sess.AccessJwt.scope # appPassScope THEN "master"
    ELSE IF ~ParseOK(sess.RefreshJwt) THEN "decode"
    ELSE "nil"

\* A Login that stores the tokens the server sent before it vets them.
LoginRecvStoreFirst ==
    /\ login.pc = "l_wait"
    /\ \E scope \in {appPassScope, "com.atproto.access"} :
       \E sess \in SessionOutputs(issued + 1, now, scope, LoginRefreshLifetimes) :
          LET v == LoginVerdict(sess) IN
          /\ login' = IF v = "nil"
                      THEN [login EXCEPT !.pc = "l_auth", !.sess = sess,
                               !.current = GetExpirationTime(sess.AccessJwt),
                               !.refresh = GetExpirationTime(sess.RefreshJwt),
                               !.answer = Acceptance(sess)]
                      ELSE [login EXCEPT !.pc = "idle", !.ret = v,
                               !.answer = Acceptance(sess)]
          /\ issued' = IF v = "nil" THEN issued + 1 ELSE issued
          /\ auth' = AuthInfo(sess)
    /\ last' = NoOutcome
    /\ UNCHANGED <<closeVars, streamVars, call, now, jwtCurrentExpire, jwtRefreshExpire,
                   jwtAsyncRefresh, jwtLock, th, wakeAt>>

\* The server accepts; Login parses the tokens and vets the scope.
LoginRecv ==
    /\ login.pc = "l_wait"
    /\ \E scope \in {appPassScope, "com.atproto.access"} :
       \E sess \in SessionOutputs(issued + 1, now, scope, LoginRefreshLifetimes) :
          LET v == LoginVerdict(sess) IN
          /\ login' = IF v = "nil"
                      THEN [login EXCEPT !.pc = "l_auth", !.sess = sess,
                               !.current = GetExpirationTime(sess.AccessJwt),
                               !.refresh = GetExpirationTime(sess.RefreshJwt),
                               !.answer = Acceptance(sess)]
                      ELSE [login EXCEPT !.pc = "idle", !.ret = v,
                               !.answer = Acceptance(sess)]
          /\ issued' = IF v = "nil" THEN issued + 1 ELSE issued
    /\ last' = NoOutcome
    /\ UNCHANGED <<closeVars, streamVars, call, now, auth, jwtCurrentExpire, jwtRefreshExpire,
                   jwtAsyncRefresh, jwtLock, th, wakeAt>>

\* c.client.Auth = &xrpc.AuthInfo{...}
LoginAuth ==
    /\ login.pc = "l_auth"
    /\ auth' = AuthInfo(login.sess)
    /\ login' = [login EXCEPT !.pc = "l_cur"]
    /\ last' = NoOutcome
    /\ UNCHANGED <<closeVars, streamVars, call, now, jwtCurrentExpire, jwtRefreshExpire, jwtAsyncRefresh,
                   jwtLock, th, wakeAt, issued>>

\* c.jwtCurrentExpire = current.Time
LoginCur ==
    /\ login.pc = "l_cur"
    /\ jwtCurrentExpire' = login.current
    /\ login' = [login EXCEPT !.pc = "l_ref"]
    /\ last' = NoOutcome
    /\ UNCHANGED <<closeVars, streamVars, call, now, auth, jwtRefreshExpire, jwtAsyncRefresh, jwtLock, th,
                   wakeAt, issued>>

\* c.jwtRefreshExpire = refresh.Time
LoginRef ==
    /\ login.pc = "l_ref"
    /\ jwtRefreshExpire' = login.refresh
    /\ login' = [login EXCEPT !.pc = "l_async"]
    /\ last' = NoOutcome
    /\ UNCHANGED <<closeVars, streamVars, call, now, auth, jwtCurrentExpire, jwtAsyncRefresh, jwtLock, th,
                   wakeAt, issued>>

\* c.jwtAsyncRefresh = make(chan struct{}, 1)
LoginAsync ==
    /\ login.pc = "l_async"
    /\ jwtAsyncRefresh' = MakeChan
    /\ login' = [login EXCEPT !.pc = "l_go"]
    /\ last' = NoOutcome
    /\ UNCHANGED <<closeVars, streamVars, call, now, auth, jwtCurrentExpire, jwtRefreshExpire, jwtLock,
                   th, wakeAt, issued>>

\* The goroutine that go c.refresher() starts: a new one at every Login.
NextRefresher == IF th[Refresher].pc = "off" THEN Refresher ELSE Refresher2

\* c.jwtRefresherStop = make(...); go c.refresher(); return nil
LoginGo ==
    /\ login.pc = "l_go"
    /\ th' = [th EXCEPT ![NextRefresher] = Frame("m_read")]
    /\ login' = [login EXCEPT !.pc = "in", !.sess = NilAuth, !.current = 0,
                    !.refresh = 0, !.ret = "nil", !.answer = NoAnswer]
    /\ last' = NoOutcome
    /\ jwtRefresherStop' = MakeStop
    /\ UNCHANGED <<closer, streamVars, call, now, auth, jwtCurrentExpire, jwtRefreshExpire,
                   jwtAsyncRefresh, jwtLock, wakeAt, issued>>

\* -------------------------------------------------------------- refresher
\* The timer fires and the loop calls maybeRefreshJWT again.
RefresherWake ==
    /\ th[Refresher].pc = "sleep"
    /\ now >= wakeAt
    /\ issued < MaxIssued
    /\ th' = [th EXCEPT ![Refresher] = Frame("m_read")]
    /\ wakeAt' = 0
    /\ last' = NoOutcome
    /\ UNCHANGED <<closeVars, streamVars, call, now, auth, jwtCurrentExpire, jwtRefreshExpire,
                   jwtAsyncRefresh, jwtLock, login, issued>>

\* -------------------------------------------------------- maybeRefreshJWT
\* A caller enters maybeRefreshJWT (EnsureValid).
Invoke(p) ==
    /\ p \in Callers
    /\ th[p].pc = "idle"
    /\ issued < MaxIssued
    /\ th' = [th EXCEPT ![p] = Frame("m_read")]
    /\ last' = NoOutcome
    /\ UNCHANGED <<closeVars, streamVars, call, now, auth, jwtCurrentExpire, jwtRefreshExpire,
                   jwtAsyncRefresh, jwtLock, wakeAt, login, issued>>

\* A validAsync that asks for more than the async threshold.
ValidAsyncStrict(expire, t) ==
    expire - t > jwtAsyncRefreshThreshold + jwtSyncRefreshThreshold

ValidAsync(expire, t) == expire - t > jwtAsyncRefreshThreshold

\* A validSync that holds at the sync threshold itself.
ValidSyncInclusive(expire, t) == expire - t >= jwtSyncRefreshThreshold

ValidSync(expire, t) == expire - t > jwtSyncRefreshThreshold

\* c.jwtLock.RLock(); now, validAsync, validSync := ...; c.jwtLock.RUnlock()
\* The section reads one field, so it is taken in one step.
MaybeRead(p) ==
    /\ th[p].pc = "m_read"
    /\ CanRLock
    /\ th' = [th EXCEPT ![p].pc = "m_decide",
                        ![p].validAsync = ValidAsync(jwtCurrentExpire, now),
                        ![p].validSync = ValidSync(jwtCurrentExpire, now),
                        ![p].obs = SessionState(jwtCurrentExpire - now),
                        ![p].past = jwtCurrentExpire - now < 0,
                        ![p].logged = (login.pc = "in"),
                        ![p].dead = (login.pc = "in"
                                     /\ jwtRefreshExpire - now < 0)]
    /\ last' = NoOutcome
    /\ UNCHANGED <<closeVars, streamVars, call, now, auth, jwtCurrentExpire, jwtRefreshExpire,
                   jwtAsyncRefresh, jwtLock, wakeAt, login, issued>>

\* if validAsync { return nil }
MaybeFresh(p) ==
    /\ th[p].pc = "m_decide"
    /\ th[p].validAsync
    /\ th' = [th EXCEPT ![p] = Returned(p)]
    /\ last' = Outcome(p, th[p], "nil")
    /\ wakeAt' = Timer(p)
    /\ UNCHANGED <<closeVars, streamVars, call, now, auth, jwtCurrentExpire, jwtRefreshExpire,
                   jwtAsyncRefresh, jwtLock, login, issued>>

\* A send that is ready whatever the channel holds.
CanSendUnbounded(ch) == ch.made

\* Whether the send case of the select is ready: a nil channel never is, a
\* buffered one is while it has room.
CanSend(ch) == ch.made /\ ch.n < asyncRefreshCap

FreeTasks == {t \in Tasks : th[t].pc = "off"}
NextTask == IF "t1" \in FreeTasks THEN "t1" ELSE CHOOSE t \in FreeTasks : TRUE

\* A select without the default case: it waits for room in the channel.
SelectBlocks(ch) == ch.made /\ ch.n < asyncRefreshCap

\* Whether the select of the validSync branch can proceed at all: it has a
\* default case, so it always can.
SelectReady(ch) == TRUE

\* The send case without its go statement: the slot is taken, nothing runs.
MaybeAsyncStartNoGo(p) ==
    /\ th[p].pc = "m_decide"
    /\ ~th[p].validAsync /\ th[p].validSync
    /\ SelectReady(jwtAsyncRefresh)
    /\ CanSend(jwtAsyncRefresh)
    /\ jwtAsyncRefresh' = [jwtAsyncRefresh EXCEPT !.n = @ + 1]
    /\ last' = Outcome(p, th[p], "nil")
    /\ wakeAt' = Timer(p)
    /\ th' = [th EXCEPT ![p] = Returned(p)]
    /\ UNCHANGED <<closeVars, streamVars, call, now, auth, jwtCurrentExpire, jwtRefreshExpire, jwtLock,
                   login, issued>>

\* case c.jwtAsyncRefresh <- struct{}{}: go func(){...}(); return nil
MaybeAsyncStart(p) ==
    /\ th[p].pc = "m_decide"
    /\ ~th[p].validAsync /\ th[p].validSync
    /\ SelectReady(jwtAsyncRefresh)
    /\ CanSend(jwtAsyncRefresh)
    /\ FreeTasks # {}
    /\ jwtAsyncRefresh' = [jwtAsyncRefresh EXCEPT !.n = @ + 1]
    /\ last' = Outcome(p, [th[p] EXCEPT !.spawned = @ + 1], "nil")
    /\ wakeAt' = Timer(p)
    /\ th' = [th EXCEPT ![p] = Returned(p),
                        ![NextTask] = Frame("r_check")]
    /\ UNCHANGED <<closeVars, streamVars, call, now, auth, jwtCurrentExpire, jwtRefreshExpire, jwtLock,
                   login, issued>>

\* default: return nil
MaybeAsyncBusy(p) ==
    /\ th[p].pc = "m_decide"
    /\ ~th[p].validAsync /\ th[p].validSync
    /\ SelectReady(jwtAsyncRefresh)
    /\ ~CanSend(jwtAsyncRefresh)
    /\ th' = [th EXCEPT ![p] = Returned(p)]
    /\ last' = Outcome(p, th[p], "nil")
    /\ wakeAt' = Timer(p)
    /\ UNCHANGED <<closeVars, streamVars, call, now, auth, jwtCurrentExpire, jwtRefreshExpire,
                   jwtAsyncRefresh, jwtLock, login, issued>>

\* Neither valid: c.jwtLock.Lock(), then refreshJWT(false) starts.
MaybeSync(p) ==
    /\ th[p].pc = "m_decide"
    /\ ~th[p].validAsync /\ ~th[p].validSync
    /\ CanLock
    /\ jwtLock' = Locked(p)
    /\ th' = [th EXCEPT ![p].pc = "r_check"]
    /\ last' = NoOutcome
    /\ UNCHANGED <<closeVars, streamVars, call, now, auth, jwtCurrentExpire, jwtRefreshExpire,
                   jwtAsyncRefresh, wakeAt, login, issued>>

\* ------------------------------------------------------------- refreshJWT
\* The lock after refreshJWT returns before its own Lock: the blocking path
\* runs maybeRefreshJWT's deferred Unlock, the background path holds nothing.
AfterReturn(p) == IF IsAsync(p) THEN jwtLock ELSE WUnlocked

\* A double-check against the sync threshold instead of the async one.
AlreadyRefreshedSync(async, expire, t) ==
    ~async /\ expire - t > jwtSyncRefreshThreshold

\* No double-check at all.
AlreadyRefreshedNever(async, expire, t) == FALSE

\* The double-check: a blocking refresh is skipped when the token has more
\* than the async threshold left; a background one never is.
AlreadyRefreshed(async, expire, t) ==
    ~async /\ expire - t > jwtAsyncRefreshThreshold

\* JWT token was already refreshed by someone else: hook(true, async); return nil
RefreshSkip(p) ==
    /\ th[p].pc = "r_check"
    /\ AlreadyRefreshed(IsAsync(p), jwtCurrentExpire, now)
    /\ th' = [th EXCEPT ![p] = Returned(p)]
    /\ last' = Outcome(p, [th[p] EXCEPT
                               !.hooks = Append(@, <<TRUE, IsAsync(p)>>),
                               !.chk = SessionState(jwtCurrentExpire - now)],
                        "nil")
    /\ wakeAt' = Timer(p)
    /\ jwtLock' = AfterReturn(p)
    /\ UNCHANGED <<closeVars, streamVars, call, now, auth, jwtCurrentExpire, jwtRefreshExpire,
                   jwtAsyncRefresh, login, issued>>

\* A refreshJWT that goes on without calling the hook.
RefreshProceedNoHook(p) ==
    /\ th[p].pc = "r_check"
    /\ ~AlreadyRefreshed(IsAsync(p), jwtCurrentExpire, now)
    /\ th' = [th EXCEPT ![p].chk = SessionState(jwtCurrentExpire - now),
                        ![p].pc = IF IsAsync(p) THEN "r_exp_rlock" ELSE "r_exp"]
    /\ last' = NoOutcome
    /\ UNCHANGED <<closeVars, streamVars, call, now, auth, jwtCurrentExpire, jwtRefreshExpire,
                   jwtAsyncRefresh, jwtLock, wakeAt, login, issued>>

\* hook(false, async), on to the refresh token's expiry
RefreshProceed(p) ==
    /\ th[p].pc = "r_check"
    /\ ~AlreadyRefreshed(IsAsync(p), jwtCurrentExpire, now)
    /\ th' = [th EXCEPT ![p].hooks = Append(@, <<FALSE, IsAsync(p)>>),
                        ![p].chk = SessionState(jwtCurrentExpire - now),
                        ![p].pc = IF IsAsync(p) THEN "r_exp_rlock" ELSE "r_exp"]
    /\ last' = NoOutcome
    /\ UNCHANGED <<closeVars, streamVars, call, now, auth, jwtCurrentExpire, jwtRefreshExpire,
                   jwtAsyncRefresh, jwtLock, wakeAt, login, issued>>

\* if async { c.jwtLock.RLock() }
RefreshExpRLock(p) ==
    /\ th[p].pc = "r_exp_rlock"
    /\ CanRLock
    /\ jwtLock' = RLocked(p)
    /\ th' = [th EXCEPT ![p].pc = "r_exp"]
    /\ last' = NoOutcome
    /\ UNCHANGED <<closeVars, streamVars, call, now, auth, jwtCurrentExpire, jwtRefreshExpire,
                   jwtAsyncRefresh, wakeAt, login, issued>>

\* expires = c.jwtRefreshExpire; if async { c.jwtLock.RUnlock() }
RefreshExpRead(p) ==
    /\ th[p].pc = "r_exp"
    /\ th' = [th EXCEPT ![p].expires = jwtRefreshExpire,
                        ![p].pc = "r_expchk"]
    /\ jwtLock' = IF IsAsync(p) THEN RUnlocked(p) ELSE jwtLock
    /\ last' = NoOutcome
    /\ UNCHANGED <<closeVars, streamVars, call, now, auth, jwtCurrentExpire, jwtRefreshExpire,
                   jwtAsyncRefresh, wakeAt, login, issued>>

\* time.Since in the place of time.Until.
RefreshTokenExpiredSince(expires, t) == t - expires < 0

\* A refresh token still accepted for a while after its expiry.
RefreshTokenExpiredGrace(expires, t) == expires - t < 0 - jwtSyncRefreshThreshold

\* time.Until(expires) < 0
RefreshTokenExpired(expires, t) == expires - t < 0

\* return ErrSessionExpired
RefreshExpired(p) ==
    /\ th[p].pc = "r_expchk"
    /\ RefreshTokenExpired(th[p].expires, now)
    /\ th' = [th EXCEPT ![p] = Returned(p)]
    /\ last' = Outcome(p, [th[p] EXCEPT !.ref = RefreshState(th[p].expires - now)],
                        "expired")
    /\ wakeAt' = Timer(p)
    /\ jwtLock' = AfterReturn(p)
    /\ UNCHANGED <<closeVars, streamVars, call, now, auth, jwtCurrentExpire, jwtRefreshExpire,
                   jwtAsyncRefresh, login, issued>>

\* The refresh token is still good.
RefreshLive(p) ==
    /\ th[p].pc = "r_expchk"
    /\ ~RefreshTokenExpired(th[p].expires, now)
    /\ th' = [th EXCEPT ![p].ref = RefreshState(th[p].expires - now),
                        ![p].pc = IF IsAsync(p) THEN "r_copy_rlock" ELSE "r_copy"]
    /\ last' = NoOutcome
    /\ UNCHANGED <<closeVars, streamVars, call, now, auth, jwtCurrentExpire, jwtRefreshExpire,
                   jwtAsyncRefresh, jwtLock, wakeAt, login, issued>>

\* if async { c.jwtLock.RLock() }
RefreshCopyRLock(p) ==
    /\ th[p].pc = "r_copy_rlock"
    /\ CanRLock
    /\ jwtLock' = RLocked(p)
    /\ th' = [th EXCEPT ![p].pc = "r_copy"]
    /\ last' = NoOutcome
    /\ UNCHANGED <<closeVars, streamVars, call, now, auth, jwtCurrentExpire, jwtRefreshExpire,
                   jwtAsyncRefresh, wakeAt, login, issued>>

\* A copy after which the background path keeps its read lock during the
\* request.
RefreshCopyKeepLock(p) ==
    /\ th[p].pc = "r_copy"
    /\ th' = [th EXCEPT ![p].refClient = auth.RefreshJwt,
                        ![p].calls = @ + 1,
                        ![p].pc = "r_wait"]
    /\ last' = NoOutcome
    /\ UNCHANGED <<closeVars, streamVars, call, now, auth, jwtCurrentExpire, jwtRefreshExpire,
                   jwtAsyncRefresh, jwtLock, wakeAt, login, issued>>

\* refClient gets a copy of the client whose access token is the refresh
\* token; if async { RUnlock }; the refreshSession request goes out.
RefreshCopy(p) ==
    /\ th[p].pc = "r_copy"
    /\ th' = [th EXCEPT ![p].refClient = auth.RefreshJwt,
                        ![p].calls = @ + 1,
                        ![p].pc = "r_wait"]
    /\ jwtLock' = IF IsAsync(p) THEN RUnlocked(p) ELSE jwtLock
    /\ last' = NoOutcome
    /\ UNCHANGED <<closeVars, streamVars, call, now, auth, jwtCurrentExpire, jwtRefreshExpire,
                   jwtAsyncRefresh, wakeAt, login, issued>>

\* A failed request that refreshJWT sends again.
RefreshFailRetry(p) ==
    /\ th[p].pc = "r_wait"
    /\ th' = [th EXCEPT ![p].pc = IF IsAsync(p) THEN "r_copy_rlock" ELSE "r_copy"]
    /\ last' = NoOutcome
    /\ UNCHANGED <<closeVars, streamVars, call, now, auth, jwtCurrentExpire, jwtRefreshExpire,
                   jwtAsyncRefresh, jwtLock, wakeAt, login, issued>>

\* ServerRefreshSession fails: return err
RefreshFail(p) ==
    /\ th[p].pc = "r_wait"
    /\ th' = [th EXCEPT ![p] = Returned(p)]
    /\ last' = Outcome(p, th[p], "transport")
    /\ wakeAt' = Timer(p)
    /\ jwtLock' = AfterReturn(p)
    /\ UNCHANGED <<closeVars, streamVars, call, now, auth, jwtCurrentExpire, jwtRefreshExpire,
                   jwtAsyncRefresh, login, issued>>

\* Whether both tokens of the answer parse.
Decodes(sess) == ParseOK(sess.AccessJwt) /\ ParseOK(sess.RefreshJwt)

\* A refreshJWT that stores every token as soon as it has parsed it, before
\* it finds that the other does not parse.
RefreshDecodeFailPartial(p) ==
    /\ th[p].pc = "r_wait"
    /\ \E sess \in SessionOutputs(issued + 1, now, appPassScope, RefreshedLifetimes) :
          /\ ~Decodes(sess)
          /\ jwtCurrentExpire' = IF ParseOK(sess.AccessJwt)
                                 THEN GetExpirationTime(sess.AccessJwt)
                                 ELSE jwtCurrentExpire
          /\ th' = [th EXCEPT ![p] = Returned(p)]
          /\ last' = Outcome(p, th[p], "decode")
          /\ wakeAt' = Timer(p)
    /\ jwtLock' = AfterReturn(p)
    /\ UNCHANGED <<closeVars, streamVars, call, now, auth, jwtRefreshExpire, jwtAsyncRefresh, login, issued>>

\* ServerRefreshSession answers, but a token does not parse: return err
RefreshDecodeFail(p) ==
    /\ th[p].pc = "r_wait"
    /\ \E sess \in SessionOutputs(issued + 1, now, appPassScope, RefreshedLifetimes) :
          /\ ~Decodes(sess)
          /\ th' = [th EXCEPT ![p] = Returned(p)]
          /\ last' = Outcome(p, th[p], "decode")
          /\ wakeAt' = Timer(p)
    /\ jwtLock' = AfterReturn(p)
    /\ UNCHANGED <<closeVars, streamVars, call, now, auth, jwtCurrentExpire, jwtRefreshExpire,
                   jwtAsyncRefresh, login, issued>>

\* ServerRefreshSession answers and both tokens parse.
RefreshRecv(p) ==
    /\ th[p].pc = "r_wait"
    /\ \E sess \in SessionOutputs(issued + 1, now, appPassScope, RefreshedLifetimes) :
          /\ Decodes(sess)
          /\ th' = [th EXCEPT ![p].sess = sess,
                              ![p].pc = IF IsAsync(p) THEN "r_lock" ELSE "r_write"]
    /\ issued' = issued + 1
    /\ last' = NoOutcome
    /\ UNCHANGED <<closeVars, streamVars, call, now, auth, jwtCurrentExpire, jwtRefreshExpire,
                   jwtAsyncRefresh, jwtLock, wakeAt, login>>

\* if async { c.jwtLock.Lock() }
RefreshLock(p) ==
    /\ th[p].pc = "r_lock"
    /\ CanLock
    /\ jwtLock' = Locked(p)
    /\ th' = [th EXCEPT ![p].pc = "r_write"]
    /\ last' = NoOutcome
    /\ UNCHANGED <<closeVars, streamVars, call, now, auth, jwtCurrentExpire, jwtRefreshExpire,
                   jwtAsyncRefresh, wakeAt, login, issued>>

\* The three assignments that swap the credentials, the deferred Unlock,
\* return nil.
RefreshWrite(p) ==
    /\ th[p].pc = "r_write"
    /\ auth' = AuthInfo(th[p].sess)
    /\ jwtCurrentExpire' = GetExpirationTime(th[p].sess.AccessJwt)
    /\ jwtRefreshExpire' = GetExpirationTime(th[p].sess.RefreshJwt)
    /\ th' = [th EXCEPT ![p] = Returned(p)]
    /\ last' = Outcome(p, th[p], "nil")
    /\ wakeAt' = Timer(p)
    /\ jwtLock' = WUnlocked
    /\ UNCHANGED <<closeVars, streamVars, call, now, jwtAsyncRefresh, login, issued>>

\* Whether a receive is ready: never on a nil channel, else when an item waits.
CanReceive(ch) == ch.made /\ ch.n > 0

\* <-c.jwtAsyncRefresh, and the background goroutine ends.
TaskRelease(p) ==
    /\ th[p].pc = "t_release"
    /\ CanReceive(jwtAsyncRefresh)
    /\ jwtAsyncRefresh' = [jwtAsyncRefresh EXCEPT !.n = @ - 1]
    /\ th' = [th EXCEPT ![p] = Frame("off")]
    /\ last' = NoOutcome
    /\ UNCHANGED <<closeVars, streamVars, call, now, auth, jwtCurrentExpire, jwtRefreshExpire, jwtLock,
                   wakeAt, login, issued>>

\* --------------------------------------------- ResolveFollowersStreaming
\* The records of a collection are numbered 1, 2, ... in the server's order.
RECURSIVE Flatten(_)
Flatten(pp) == IF pp = << >> THEN << >> ELSE Head(pp) \o Flatten(Tail(pp))

RECURSIVE Numbered(_, _)
Numbered(lens, from) ==
    IF lens = << >> THEN << >>
    ELSE <<[k \in 1..Head(lens) |-> from + k]>>
         \o Numbered(Tail(lens), from + Head(lens))

Collections ==
    { Numbered(lens, 0) :
        lens \in UNION { [1..n -> 0..MaxPageLen] : n \in 1..MaxPages } }

\* The follower counts a profile may show, whatever the collection holds.
Hints == {0, MaxHint}

\* A slice: p.Followers before any ResolveFollowers is nil.
NilSlice == [set |-> FALSE, items |-> << >>]

\* An append that drops what does not fit the capacity.
SliceAppendCapped(sl, x) ==
    IF Len(sl.items) < sl.cap
    THEN [items |-> Append(sl.items, x), cap |-> sl.cap]
    ELSE sl

\* append(followers, follower): a full slice moves to a larger array.
SliceAppend(sl, x) ==
    [items |-> Append(sl.items, x),
     cap |-> IF Len(sl.items) < sl.cap THEN sl.cap
             ELSE IF sl.cap = 0 THEN 1 ELSE 2 * sl.cap]

\* A nil *string; the empty string, the cursor of the first request, is 0.
NilCursor == [set |-> FALSE, at |-> 0]

\* Whether s is the front of t.
IsPrefix(s, t) == Len(s) <= Len(t) /\ s = SubSeq(t, 1, Len(s))

\* The goroutine of ResolveFollowersStreaming.  cursor: the pages fetched so
\* far; res: the page in hand; i: the record of it to feed next; err: what
\* went wrong; resCursor: res.Cursor of the page in hand.  The rest records
\* what it did: asked, the cursor of every request sent, gave, the res.Cursor
\* of every answer; fetches, the requests sent;
\* errs, the errors put on errc; over and overFetch, the followers fed and
\* the requests sent after ctx was cancelled; late, whether ctx was already
\* cancelled when the request in flight was sent.
Producer(pc) ==
    [pc |-> pc, cursor |-> 0, res |-> << >>, i |-> 1, err |-> "none",
     fetches |-> 0, errs |-> 0, over |-> 0, overFetch |-> 0, late |-> FALSE,
     resCursor |-> NilCursor, asked |-> << >>, gave |-> << >>]

\* The goroutine that called ResolveFollowersStreaming: got, the followers
\* it received; err, what it read from errc; cancelAt, how many followers it
\* had received when ctx was cancelled (-1: not cancelled).  all: whether
\* it is ResolveFollowers that reads; then hint is p.FollowerCount, got the
\* slice followers and cap its capacity, Followers the field p.Followers,
\* and ret what ResolveFollowers returned.
Consumer(pc) ==
    [pc |-> pc, got |-> << >>, err |-> "none", cancelAt |-> 0 - 1,
     all |-> FALSE, hint |-> 0, cap |-> 0, Followers |-> NilSlice,
     ret |-> "none"]

\* p.Followers as the call finds it: nil, or the list an earlier
\* ResolveFollowers left, of a follower who has gone since.
PriorFollowers == {NilSlice, [set |-> TRUE, items |-> <<0>>]}

\* followers := make([]*User, 0, p.FollowerCount)
ResolveFollowers(hint) ==
    [Consumer("range") EXCEPT !.all = TRUE, !.hint = hint, !.cap = hint]

\* The call has made both channels and started the goroutine.
InitStream ==
    /\ Init!1 /\ Init!2 /\ Init!3 /\ Init!4 /\ Init!5 /\ Init!6 /\ Init!7
    /\ Init!8 /\ Init!9 /\ Init!10 /\ Init!11 /\ Init!12 /\ Init!13
    /\ pages \in Collections
    /\ ctxDone = FALSE
    /\ followers = MakeQueue
    /\ errc = MakeQueue
    /\ call = [p \in Callers |-> NoCall]
    /\ prod = Producer("fetch")
    /\ cons \in { [c EXCEPT !.Followers = f] :
                     c \in {Consumer("range")}
                           \cup {ResolveFollowers(h) : h \in Hints},
                     f \in PriorFollowers }

\* A channel that takes every send.
HasRoomAlways(ch, cap) == ch.made /\ ~ch.closed

\* Whether a buffered channel takes a send without blocking.
HasRoom(ch, cap) == ch.made /\ ~ch.closed /\ Len(ch.buf) < cap

\* res, err := bsky.GraphGetFollowers(ctx, ..., cursor, 100): the request
GraphGetFollowers ==
    /\ prod.pc = "fetch"
    /\ prod' = [prod EXCEPT !.pc = "wait", !.fetches = @ + 1,
                            !.asked = Append(@, prod.cursor),
                            !.late = ctxDone,
                            !.overFetch = IF ctxDone THEN @ + 1 ELSE @]
    /\ UNCHANGED <<jwtVars, closeVars, call, pages, ctxDone, followers, errc, cons>>

\* A failed request that is sent again.
FetchFailRetry ==
    /\ prod.pc = "wait"
    /\ prod' = [prod EXCEPT !.pc = "fetch",
                            !.err = IF ctxDone THEN "canceled" ELSE "transport"]
    /\ UNCHANGED <<jwtVars, closeVars, call, pages, ctxDone, followers, errc, cons>>

\* The request fails: as context.Canceled if ctx is cancelled, which it
\* always does on a ctx cancelled before the request, else as the transport's.
FetchFail ==
    /\ prod.pc = "wait"
    /\ prod' = [prod EXCEPT !.pc = "senderr",
                            !.err = IF ctxDone THEN "canceled" ELSE "transport"]
    /\ UNCHANGED <<jwtVars, closeVars, call, pages, ctxDone, followers, errc, cons>>

\* Every page taken for the last.
LastPageAlways(cursor) == TRUE

\* res.Cursor == nil
LastPage(cursor) == cursor + 1 = Len(pages)

\* res.Cursor, a *string, in the answer to a request made with cursor: nil
\* with the last page, else a pointer to the cursor of the page that follows.
ResCursor(cursor) ==
    IF LastPage(cursor) THEN NilCursor ELSE [set |-> TRUE, at |-> cursor + 1]

\* The server answers with the next page.
FetchOK ==
    /\ prod.pc = "wait"
    /\ ~prod.late
    /\ prod' = [prod EXCEPT !.pc = "emit", !.res = pages[prod.cursor + 1],
                            !.i = 1,
                            !.resCursor = ResCursor(prod.cursor),
                            !.gave = Append(@, ResCursor(prod.cursor))]
    /\ UNCHANGED <<jwtVars, closeVars, call, pages, ctxDone, followers, errc, cons>>

\* Whether the send case of the select is ready.
SendReady == HasRoom(followers, followersCap)

\* A select without the ctx.Done() case.
DoneNeverReady == FALSE

\* Whether the ctx.Done() case of the select is ready.
DoneReady == ctxDone

\* case followers <- f
Emit ==
    /\ prod.pc = "emit"
    /\ prod.i <= Len(prod.res)
    /\ SendReady
    /\ followers' = [followers EXCEPT !.buf = Append(@, prod.res[prod.i])]
    /\ prod' = [prod EXCEPT !.i = @ + 1,
                            !.over = IF ctxDone THEN @ + 1 ELSE @]
    /\ UNCHANGED <<jwtVars, closeVars, call, pages, ctxDone, errc, cons>>

\* An abort that returns without errc <- ctx.Err().
AbortNoError ==
    /\ prod.pc = "emit"
    /\ prod.i <= Len(prod.res)
    /\ DoneReady
    /\ prod' = [prod EXCEPT !.pc = "close"]
    /\ UNCHANGED <<jwtVars, closeVars, call, pages, ctxDone, followers, errc, cons>>

\* case <-ctx.Done(): on to errc <- ctx.Err()
Abort ==
    /\ prod.pc = "emit"
    /\ prod.i <= Len(prod.res)
    /\ DoneReady
    /\ prod' = [prod EXCEPT !.pc = "senderr", !.err = "canceled"]
    /\ UNCHANGED <<jwtVars, closeVars, call, pages, ctxDone, followers, errc, cons>>

\* A loop that goes on with the cursor it had.
NextCursorKept(cursor, resCursor) == cursor

\* cursor = *res.Cursor
NextCursor(cursor, resCursor) == resCursor.at

\* The page is fed: break if it was the last, else cursor = *res.Cursor.
PageEnd ==
    /\ prod.pc = "emit"
    /\ prod.i > Len(prod.res)
    /\ prod' = IF LastPage(prod.cursor)
               THEN [prod EXCEPT !.pc = "close", !.cursor = @ + 1]
               ELSE [prod EXCEPT !.pc = "fetch",
                                 !.cursor = NextCursor(@, prod.resCursor)]
    /\ UNCHANGED <<jwtVars, closeVars, call, pages, ctxDone, followers, errc, cons>>

\* errc <- err; return
SendErr ==
    /\ prod.pc = "senderr"
    /\ HasRoom(errc, errcCap)
    /\ errc' = [errc EXCEPT !.buf = Append(@, prod.err)]
    /\ prod' = [prod EXCEPT !.pc = "close", !.errs = @ + 1]
    /\ UNCHANGED <<jwtVars, closeVars, call, pages, ctxDone, followers, cons>>

\* defer: close(followers)
CloseFollowers ==
    /\ prod.pc = "close"
    /\ followers' = [followers EXCEPT !.closed = TRUE]
    /\ prod' = [prod EXCEPT !.pc = "close_errc"]
    /\ UNCHANGED <<jwtVars, closeVars, call, pages, ctxDone, errc, cons>>

\* A goroutine that ends without close(errc).
CloseErrcSkipped ==
    /\ prod.pc = "close_errc"
    /\ prod' = [prod EXCEPT !.pc = "done"]
    /\ UNCHANGED <<jwtVars, closeVars, call, pages, ctxDone, followers, errc, cons>>

\* defer: close(errc)
CloseErrc ==
    /\ prod.pc = "close_errc"
    /\ errc' = [errc EXCEPT !.closed = TRUE]
    /\ prod' = [prod EXCEPT !.pc = "done"]
    /\ UNCHANGED <<jwtVars, closeVars, call, pages, ctxDone, followers, cons>>

ProducerStep ==
    \/ GraphGetFollowers \/ FetchFail \/ FetchOK
    \/ Emit \/ Abort \/ PageEnd
    \/ SendErr \/ CloseFollowers \/ CloseErrc

\* for follower := range followerc: one follower received
Receive ==
    /\ cons.pc = "range"
    /\ followers.buf # << >>
    /\ LET sl == SliceAppend([items |-> cons.got, cap |-> cons.cap],
                             Head(followers.buf))
       IN cons' = IF cons.all
                  THEN [cons EXCEPT !.got = sl.items, !.cap = sl.cap]
                  ELSE [cons EXCEPT !.got = Append(@, Head(followers.buf))]
    /\ followers' = [followers EXCEPT !.buf = Tail(@)]
    /\ UNCHANGED <<jwtVars, closeVars, call, pages, ctxDone, errc, prod>>

\* The range loop ends on the closed, drained channel.
RangeEnd ==
    /\ cons.pc = "range"
    /\ followers.buf = << >> /\ followers.closed
    /\ cons' = [cons EXCEPT !.pc = "errc"]
    /\ UNCHANGED <<jwtVars, closeVars, call, pages, ctxDone, followers, errc, prod>>

\* A ResolveFollowers that stores what it has collected before it looks at
\* the error.
ReadErrStoreFirst ==
    /\ cons.pc = "errc"
    /\ errc.buf # << >> \/ errc.closed
    /\ LET err == IF errc.buf # << >> THEN Head(errc.buf) ELSE "nil"
       IN cons' = [cons EXCEPT
                      !.pc = "done",
                      !.err = err,
                      !.ret = IF cons.all THEN err ELSE @,
                      !.Followers = IF cons.all
                                    THEN [set |-> TRUE, items |-> cons.got]
                                    ELSE @]
    /\ errc' = [errc EXCEPT !.buf = IF @ = << >> THEN @ ELSE Tail(@)]
    /\ UNCHANGED <<jwtVars, closeVars, call, pages, ctxDone, followers, prod>>

\* err := <-errc: the error queued, or nil from the closed channel; in
\* ResolveFollowers: if err != nil { return err }; p.Followers = followers
ReadErr ==
    /\ cons.pc = "errc"
    /\ errc.buf # << >> \/ errc.closed
    /\ LET err == IF errc.buf # << >> THEN Head(errc.buf) ELSE "nil"
       IN cons' = [cons EXCEPT
                      !.pc = "done",
                      !.err = err,
                      !.ret = IF cons.all THEN err ELSE @,
                      !.Followers = IF cons.all /\ err = "nil"
                                    THEN [set |-> TRUE, items |-> cons.got]
                                    ELSE @]
    /\ errc' = [errc EXCEPT !.buf = IF @ = << >> THEN @ ELSE Tail(@)]
    /\ UNCHANGED <<jwtVars, closeVars, call, pages, ctxDone, followers, prod>>

ConsumerStep == Receive \/ RangeEnd \/ ReadErr

\* cancel()
Cancel ==
    /\ ~ctxDone
    /\ cons.pc \in {"range", "gone"}
    /\ ctxDone' = TRUE
    /\ cons' = [cons EXCEPT !.cancelAt = Len(cons.got)]
    /\ UNCHANGED <<jwtVars, closeVars, call, pages, followers, errc, prod>>

\* The reader walks away from the channels without draining them.
Abandon ==
    /\ cons.pc = "range"
    /\ ~cons.all
    /\ cons' = [cons EXCEPT !.pc = "gone"]
    /\ UNCHANGED <<jwtVars, closeVars, call, pages, ctxDone, followers, errc, prod>>

NextStream == ProducerStep \/ ConsumerStep \/ Cancel \/ Abandon

\* The goroutine runs and its requests are answered; a reader that has not
\* walked away keeps reading.
SpecStream ==
    InitStream /\ [][NextStream]_vars
    /\ WF_vars(ProducerStep) /\ WF_vars(ConsumerStep)

\* ------------------------------------------------------------------- Next
\* ------------------------------------------------------------------ Close
\* Close tests c.jwtRefresherStop: nil, it returns at once; otherwise it
\* makes stopc and stands in the send on the unbuffered channel.  at keeps
\* where Login stood at the call.
CloseCall ==
    /\ closer.pc = "idle"
    /\ closer' = [pc |-> IF jwtRefresherStop.made THEN "send" ELSE "returned",
                  at |-> login.pc]
    /\ jwtRefresherStop' = [jwtRefresherStop EXCEPT !.offer = @ \/ jwtRefresherStop.made]
    /\ last' = NoOutcome
    /\ UNCHANGED <<streamVars, call, now, auth, jwtCurrentExpire, jwtRefreshExpire,
                   jwtAsyncRefresh, jwtLock, th, wakeAt, login, issued>>

\* case stopc := <-c.jwtRefresherStop: the refresher, in its select, meets
\* the send of Close.
RefresherStop ==
    /\ th[Refresher].pc = "sleep"
    /\ jwtRefresherStop.made /\ jwtRefresherStop.offer
    /\ closer.pc = "send"
    /\ jwtRefresherStop' = [jwtRefresherStop EXCEPT !.offer = FALSE]
    /\ closer' = [closer EXCEPT !.pc = "recv"]
    /\ th' = [th EXCEPT ![Refresher] = Frame("ack")]
    /\ wakeAt' = 0
    /\ last' = NoOutcome
    /\ UNCHANGED <<streamVars, call, now, auth, jwtCurrentExpire, jwtRefreshExpire,
                   jwtAsyncRefresh, jwtLock, login, issued>>

\* A refresher that returns without answering on stopc.
RefresherAckSilent ==
    /\ th[Refresher].pc = "ack"
    /\ th' = [th EXCEPT ![Refresher] = Frame("stopped")]
    /\ last' = NoOutcome
    /\ UNCHANGED <<closeVars, streamVars, call, now, auth, jwtCurrentExpire, jwtRefreshExpire,
                   jwtAsyncRefresh, jwtLock, wakeAt, login, issued>>

\* stopc <- struct{}{}; return: the refresher meets the <-stopc of Close and
\* ends.
RefresherAck ==
    /\ th[Refresher].pc = "ack"
    /\ closer.pc = "recv"
    /\ closer' = [closer EXCEPT !.pc = "clear"]
    /\ th' = [th EXCEPT ![Refresher] = Frame("stopped")]
    /\ last' = NoOutcome
    /\ UNCHANGED <<jwtRefresherStop, streamVars, call, now, auth, jwtCurrentExpire,
                   jwtRefreshExpire, jwtAsyncRefresh, jwtLock, wakeAt, login, issued>>

\* c.jwtRefresherStop = nil; return nil
CloseClear ==
    /\ closer.pc = "clear"
    /\ jwtRefresherStop' = NilStop
    /\ closer' = [closer EXCEPT !.pc = "returned"]
    /\ last' = NoOutcome
    /\ UNCHANGED <<streamVars, call, now, auth, jwtCurrentExpire, jwtRefreshExpire,
                   jwtAsyncRefresh, jwtLock, th, wakeAt, login, issued>>

\* case stopc := <-c.jwtRefresherStop, by whichever refresher is in its
\* select: each reads the field c.jwtRefresherStop as it enters the select.
StopRefresher(p) ==
    /\ th[p].pc = "sleep"
    /\ jwtRefresherStop.made /\ jwtRefresherStop.offer
    /\ closer.pc = "send"
    /\ jwtRefresherStop' = [jwtRefresherStop EXCEPT !.offer = FALSE]
    /\ closer' = [closer EXCEPT !.pc = "recv"]
    /\ th' = [th EXCEPT ![p] = Frame("ack")]
    /\ wakeAt' = IF p = Refresher THEN 0 ELSE wakeAt
    /\ last' = NoOutcome
    /\ UNCHANGED <<streamVars, call, now, auth, jwtCurrentExpire, jwtRefreshExpire,
                   jwtAsyncRefresh, jwtLock, login, issued>>

\* stopc <- struct{}{}; return, by the refresher that took stopc.
AckRefresher(p) ==
    /\ th[p].pc = "ack"
    /\ closer.pc = "recv"
    /\ closer' = [closer EXCEPT !.pc = "clear"]
    /\ th' = [th EXCEPT ![p] = Frame("stopped")]
    /\ last' = NoOutcome
    /\ UNCHANGED <<jwtRefresherStop, streamVars, call, now, auth, jwtCurrentExpire,
                   jwtRefreshExpire, jwtAsyncRefresh, jwtLock, wakeAt, login, issued>>

\* ------------------------------------------------------------- CustomCall
\* CustomCall begins with c.maybeRefreshJWT(), whose result it drops.
CustomCallBegin(p) ==
    /\ call[p].pc = "idle"
    /\ th[p].pc = "idle"
    /\ call' = [call EXCEPT ![p] = [NoCall EXCEPT !.op = "custom",
                                                  !.pc = "ensure",
                                                  !.ensured = TRUE,
                                                  !.logged = (login.pc = "in")]]
    /\ th' = [th EXCEPT ![p] = Frame("m_read")]
    /\ last' = NoOutcome
    /\ UNCHANGED <<closeVars, streamVars, now, auth, jwtCurrentExpire, jwtRefreshExpire,
                   jwtAsyncRefresh, jwtLock, wakeAt, login, issued>>

\* The client that *dangling = *c.client leaves in dangling: its Auth field
\* is the pointer of c.client.Auth, the same AuthInfo and no copy of it.
ShallowCopy(a) == [ref |-> a.AccessJwt.sid, Auth |-> a]

\* maybeRefreshJWT has returned: c.jwtLock.RLock(); *dangling = *c.client
CustomCopy(p) ==
    /\ call[p].pc = "ensure"
    /\ th[p].pc = "idle"
    /\ CanRLock
    /\ jwtLock' = RLocked(p)
    /\ call' = [call EXCEPT ![p].pc = "deref",
                            ![p].dangling = ShallowCopy(auth)]
    /\ last' = NoOutcome
    /\ UNCHANGED <<closeVars, streamVars, now, auth, jwtCurrentExpire, jwtRefreshExpire,
                   jwtAsyncRefresh, th, wakeAt, login, issued>>

\* What an assignment through the pointer ref leaves in the handle h: the
\* handles whose Auth is that AuthInfo all see what was assigned.
Assigned(h, ref, a) == IF h.ref = ref THEN [h EXCEPT !.Auth = a] ELSE h

\* *dangling.Auth = *c.client.Auth: on a client that has never logged in
\* the pointer is nil and the call panics, the read lock still held.
CustomDeref(p) ==
    /\ call[p].pc = "deref"
    /\ call' = IF call[p].dangling.ref = 0
               THEN [call EXCEPT ![p].pc = "panic"]
               ELSE [q \in Callers |->
                        [call[q] EXCEPT
                            !.pc = IF q = p THEN "unlock" ELSE @,
                            !.dangling = Assigned(@, call[p].dangling.ref, auth)]]
    /\ last' = NoOutcome
    /\ UNCHANGED <<closeVars, streamVars, now, auth, jwtCurrentExpire, jwtRefreshExpire,
                   jwtAsyncRefresh, jwtLock, th, wakeAt, login, issued>>

\* c.jwtLock.RUnlock(); callback(dangling) is entered
CustomInvoke(p) ==
    /\ call[p].pc = "unlock"
    /\ jwtLock' = RUnlocked(p)
    /\ call' = [call EXCEPT
                   ![p].pc = "callback",
                   ![p].built = call[p].dangling.Auth,
                   ![p].stale =
                       GetExpirationTime(call[p].dangling.Auth.AccessJwt) - now < 0]
    /\ last' = NoOutcome
    /\ UNCHANGED <<closeVars, streamVars, now, auth, jwtCurrentExpire, jwtRefreshExpire,
                   jwtAsyncRefresh, th, wakeAt, login, issued>>

\* The callback returns, and CustomCall with it; the user may keep the
\* client it was given.
CustomReturn(p) ==
    /\ call[p].pc = "callback"
    /\ call' = [call EXCEPT ![p].pc = "kept"]
    /\ last' = NoOutcome
    /\ UNCHANGED <<closeVars, streamVars, now, auth, jwtCurrentExpire, jwtRefreshExpire,
                   jwtAsyncRefresh, jwtLock, th, wakeAt, login, issued>>

\* ----------------------------------------------------------- FetchProfile
\* bsky.ActorGetProfile(ctx, c.client, id): the request goes out with
\* whatever c.client.Auth holds.
FetchProfileSend(p) ==
    /\ call[p].pc = "idle"
    /\ th[p].pc = "idle"
    /\ call' = [call EXCEPT ![p] = [NoCall EXCEPT !.op = "profile",
                                                  !.pc = "sent",
                                                  !.logged = (login.pc = "in"),
                                                  !.used = auth.AccessJwt]]
    /\ last' = NoOutcome
    /\ UNCHANGED <<closeVars, streamVars, now, auth, jwtCurrentExpire, jwtRefreshExpire,
                   jwtAsyncRefresh, jwtLock, th, wakeAt, login, issued>>

\* The server answers, or the request fails, and FetchProfile returns.
FetchProfileReturn(p) ==
    /\ call[p].pc = "sent"
    /\ call' = [call EXCEPT ![p].pc = "returned"]
    /\ last' = NoOutcome
    /\ UNCHANGED <<closeVars, streamVars, now, auth, jwtCurrentExpire, jwtRefreshExpire,
                   jwtAsyncRefresh, jwtLock, th, wakeAt, login, issued>>

\* Login is called again on a client that is logged in.
LoginAgain ==
    /\ login.pc = "in"
    /\ issued < MaxIssued
    /\ login' = [login EXCEPT !.pc = "l_wait", !.ret = "none",
                               !.answer = NoAnswer]
    /\ last' = NoOutcome
    /\ UNCHANGED <<closeVars, streamVars, call, now, auth, jwtCurrentExpire, jwtRefreshExpire,
                   jwtAsyncRefresh, jwtLock, th, wakeAt, issued>>

\* =================================================================== Next
Next ==
    \/ Tick
    \/ LoginSend \/ LoginRejected \/ LoginRecv
    \/ LoginAuth \/ LoginCur \/ LoginRef \/ LoginAsync \/ LoginGo
    \/ RefresherWake
    \/ \E p \in Callers : Invoke(p)
    \/ \E p \in SyncThreads :
          \/ MaybeRead(p) \/ MaybeFresh(p)
          \/ MaybeAsyncStart(p) \/ MaybeAsyncBusy(p) \/ MaybeSync(p)
    \/ \E p \in Threads :
          \/ RefreshSkip(p) \/ RefreshProceed(p)
          \/ RefreshExpRead(p) \/ RefreshExpired(p) \/ RefreshLive(p)
          \/ RefreshCopy(p)
          \/ RefreshFail(p) \/ RefreshDecodeFail(p) \/ RefreshRecv(p)
          \/ RefreshWrite(p)
    \/ \E p \in Tasks :
          \/ RefreshExpRLock(p) \/ RefreshCopyRLock(p)
          \/ RefreshLock(p)
          \/ TaskRelease(p)

Spec == Init /\ [][Next]_vars

\* The client with its refresher, one API caller and a Close call.
\* A step of maybeRefreshJWT or refreshJWT by the refresher or by a
\* background goroutine.
RefreshStep(p) ==
    \/ RefreshSkip(p) \/ RefreshProceed(p)
    \/ RefreshExpRead(p) \/ RefreshExpired(p) \/ RefreshLive(p)
    \/ RefreshCopy(p)
    \/ RefreshFail(p) \/ RefreshDecodeFail(p) \/ RefreshRecv(p)
    \/ RefreshWrite(p)

RefresherStep ==
    \/ MaybeRead(Refresher) \/ MaybeFresh(Refresher)
    \/ MaybeAsyncStart(Refresher) \/ MaybeAsyncBusy(Refresher)
    \/ MaybeSync(Refresher)
    \/ RefreshStep(Refresher)

TaskStep ==
    \E p \in Tasks :
        \/ RefreshStep(p)
        \/ RefreshExpRLock(p) \/ RefreshCopyRLock(p)
        \/ RefreshLock(p)
        \/ TaskRelease(p)

\* The one goroutine that calls the API while the client is closed.
CloseCallers == {"c1"}

CallerStep ==
    \E p \in CloseCallers :
        \/ MaybeRead(p) \/ MaybeFresh(p)
        \/ MaybeAsyncStart(p) \/ MaybeAsyncBusy(p) \/ MaybeSync(p)
        \/ RefreshStep(p)

CloseStep == CloseCall \/ RefresherStop \/ RefresherAck \/ CloseClear

NextClose ==
    \/ Tick
    \/ LoginSend \/ LoginRejected \/ LoginRecv
    \/ LoginAuth \/ LoginCur \/ LoginRef \/ LoginAsync \/ LoginGo
    \/ RefresherWake
    \/ \E p \in CloseCallers : Invoke(p)
    \/ CallerStep
    \/ RefresherStep
    \/ TaskStep
    \/ CloseStep

\* The goroutines are scheduled and every request returns; a goroutine that
\* waits for jwtLock gets it in the end, sync.RWMutex handing the lock to a
\* waiter that would starve, whence the strong fairness; time, the calls of
\* the API and the callers of Login and Close are free.
SpecClose ==
    /\ Init /\ [][NextClose]_vars
    /\ SF_vars(RefresherStep) /\ SF_vars(TaskStep) /\ SF_vars(CallerStep)
    /\ WF_vars(RefresherStop \/ RefresherAck \/ CloseClear)

\* The idle client: Login, the refresher with its background goroutines and
\* Close, no API caller.  The minute ends, and the next begins, when Login
\* is not under way, the refresher has made its check of this minute and is
\* back in its select, and no background refresh is still running: the
\* refresher wakes every interval and every request is answered within it.
Quiet ==
    /\ login.pc \in {"idle", "in"}
    /\ FreeTasks = Tasks
    /\ th[Refresher].pc \in {"off", "sleep", "ack", "stopped"}
    /\ th[Refresher].pc = "sleep" => wakeAt > now

TickIdle == Quiet /\ issued < MaxIssued /\ Tick

NextIdle ==
    \/ TickIdle
    \/ LoginSend \/ LoginRejected \/ LoginRecv
    \/ LoginAuth \/ LoginCur \/ LoginRef \/ LoginAsync \/ LoginGo
    \/ RefresherWake
    \/ MaybeRead(Refresher) \/ MaybeFresh(Refresher)
    \/ MaybeAsyncStart(Refresher) \/ MaybeSync(Refresher)
    \/ \E p \in Tasks \cup {Refresher} :
          \/ RefreshProceed(p)
          \/ RefreshExpRead(p) \/ RefreshExpired(p) \/ RefreshLive(p)
          \/ RefreshCopy(p)
          \/ RefreshFail(p) \/ RefreshDecodeFail(p) \/ RefreshRecv(p)
          \/ RefreshWrite(p)
    \/ \E p \in Tasks :
          \/ RefreshExpRLock(p) \/ RefreshCopyRLock(p)
          \/ RefreshLock(p)
          \/ TaskRelease(p)
    \/ CloseStep

SpecIdle == Init /\ [][NextIdle]_vars

\* The client with its refresher and one API caller, who makes one
\* CustomCall or one FetchProfile.
CallStep(p) ==
    \/ CustomCallBegin(p) \/ CustomCopy(p) \/ CustomDeref(p)
    \/ CustomInvoke(p) \/ CustomReturn(p)

NextCall ==
    \/ Tick
    \/ LoginSend \/ LoginRejected \/ LoginRecv
    \/ LoginAuth \/ LoginCur \/ LoginRef \/ LoginAsync \/ LoginGo
    \/ RefresherWake
    \/ \E p \in CloseCallers :
          \/ CallStep(p)
          \/ FetchProfileSend(p) \/ FetchProfileReturn(p)
    \/ CallerStep
    \/ RefresherStep
    \/ TaskStep

SpecCall == Init /\ [][NextCall]_vars

\* One minute of the client with Login called again at will and every
\* caller making one CustomCall, the server answering every request: the
\* access token is Fresh or Stale, never NearExpiry, so that no background
\* goroutine starts.
NextHandle ==
    \/ LoginSend \/ LoginRecv
    \/ LoginAuth \/ LoginCur \/ LoginRef \/ LoginAsync \/ LoginGo
    \/ LoginAgain
    \/ \E p \in Callers :
          \/ CallStep(p)
          \/ MaybeRead(p) \/ MaybeFresh(p) \/ MaybeSync(p)
          \/ RefreshSkip(p) \/ RefreshProceed(p)
          \/ RefreshExpRead(p) \/ RefreshExpired(p) \/ RefreshLive(p)
          \/ RefreshCopy(p) \/ RefreshRecv(p) \/ RefreshWrite(p)

SpecHandle == Init /\ [][NextHandle]_vars

\* The lifetimes of an access token that bring every remaining validity
\* about: any number of minutes up to the sum of the two thresholds.
SessionLifetimes == 1..(jwtAsyncRefreshThreshold + jwtSyncRefreshThreshold)

\* The client as a Login that returned nil at minute 1 leaves it, the access
\* token good for one of the given numbers of minutes.
InitSessionOf(lifetimes) ==
    /\ Init!1
    /\ \E a \in lifetimes, r \in LoginRefreshLifetimes :
          /\ auth = AuthInfo([AccessJwt |-> Token(1, 1 + a, appPassScope, TRUE),
                              RefreshJwt |-> Token(1, 1 + r, "", TRUE),
                              Handle |-> testHandle, Did |-> testDid])
          /\ jwtCurrentExpire = 1 + a
          /\ jwtRefreshExpire = 1 + r
    /\ jwtAsyncRefresh = MakeChan
    /\ jwtLock = Unlocked
    /\ th = [p \in Threads |->
                IF p \in Callers THEN Frame("idle")
                ELSE IF p = Refresher THEN Frame("m_read")
                ELSE Frame("off")]
    /\ wakeAt = 0
    /\ login = [pc |-> "in", sess |-> NilAuth, current |-> 0, refresh |-> 0,
                ret |-> "nil", answer |-> NoAnswer]
    /\ last = NoOutcome
    /\ issued = 1
    /\ jwtRefresherStop = MakeStop
    /\ Init!13 /\ Init!14 /\ Init!15 /\ Init!16 /\ Init!17 /\ Init!18
    /\ Init!19 /\ Init!20

\* The session from its first minute on: Login has returned nil, the
\* refresher has just been started, one caller and the refresher call
\* maybeRefreshJWT, and time goes on.
NextSession ==
    \/ Tick
    \/ RefresherWake
    \/ \E p \in CloseCallers : Invoke(p)
    \/ CallerStep
    \/ RefresherStep
    \/ TaskStep

SpecSession == InitSessionOf(SessionLifetimes) /\ [][NextSession]_vars

\* The logged-in client with everything that takes jwtLock or the slot at
\* work at once: the refresher, a caller of CustomCall, the background
\* goroutines and one Close, as time goes on.
CustomCallerStep ==
    \E p \in CloseCallers :
        \/ CallStep(p)
        \/ MaybeRead(p) \/ MaybeFresh(p)
        \/ MaybeAsyncStart(p) \/ MaybeAsyncBusy(p) \/ MaybeSync(p)
        \/ RefreshStep(p)

\* Time goes on while the access token is above the blocking threshold: for
\* a token below it maybeRefreshJWT decides the same at every later minute.
NextLive ==
    \/ ValidSync(jwtCurrentExpire, now) /\ Tick
    \/ RefresherWake
    \/ CustomCallerStep
    \/ RefresherStep
    \/ TaskStep
    \/ CloseStep

\* The goroutines are scheduled, every request returns, and a goroutine that
\* waits for jwtLock gets it in the end. The access token is one minute
\* above the blocking threshold: a background refresh is started for it now
\* and a blocking one a minute later.
SpecLive ==
    /\ InitSessionOf({jwtSyncRefreshThreshold + 1}) /\ [][NextLive]_vars
    /\ SF_vars(RefresherStep) /\ SF_vars(TaskStep) /\ SF_vars(CustomCallerStep)
    /\ WF_vars(RefresherStop \/ RefresherAck \/ CloseClear)

\* The client whose user calls Login, Login again and Close as it likes,
\* with the refreshers and the background goroutines that these start and no
\* other API call.  The timer of the second refresher is left out: having
\* made its first check it stays in its select until it is stopped.  A
\* minute ends as in the idle client, so that no refresher finds the slot
\* taken.
NextRelogin ==
    \/ TickIdle
    \/ LoginSend \/ LoginRejected \/ LoginRecv
    \/ LoginAuth \/ LoginCur \/ LoginRef \/ LoginAsync \/ LoginGo
    \/ LoginAgain
    \/ RefresherWake
    \/ \E p \in Refreshers :
          \/ MaybeRead(p) \/ MaybeFresh(p)
          \/ MaybeAsyncStart(p) \/ MaybeSync(p)
          \/ RefreshStep(p)
    \/ TaskStep
    \/ CloseCall \/ CloseClear
    \/ \E p \in Refreshers : StopRefresher(p) \/ AckRefresher(p)

SpecRelogin == Init /\ [][NextRelogin]_vars

\* ----------------------------------------------------------------- claims
\* The session is logged in.
LoggedIn == login.pc = "in"

\* The background goroutines that have been started and have not ended.
ActiveTasks == {t \in Tasks : th[t].pc # "off"}

\* The refresh outcomes that are failures of the refreshSession exchange.
RefreshFailures == {"transport", "decode"}

\* C1: Fresh is a no-op.  A call of maybeRefreshJWT that read a remaining
\* validity above the async threshold can always return; until it does it has
\* called no hook, sent no request, started no goroutine and holds no lock;
\* and the step in which it returns reports nil and changes neither the
\* credential store, nor the slot, nor the lock, nor any background goroutine.
C1_FreshIsNoop ==
    /\ [](\A p \in SyncThreads : th[p].obs = "Fresh" =>
            /\ th[p].pc = "m_decide" /\ ENABLED MaybeFresh(p)
            /\ th[p].hooks = << >> /\ th[p].calls = 0 /\ th[p].spawned = 0
            /\ jwtLock.w # p /\ p \notin jwtLock.r)
    /\ [][\A p \in SyncThreads : (th[p].obs = "Fresh" /\ th'[p] # th[p]) =>
            /\ last' = Outcome(p, th[p], "nil")
            /\ last'.hooks = << >> /\ last'.calls = 0 /\ last'.spawned = 0
            /\ UNCHANGED <<store, jwtAsyncRefresh, jwtLock>>
            /\ \A t \in Tasks : th'[t] = th[t]]_vars

\* A caller of a logged-in client has returned from a call that found the
\* token Fresh, and the token is Fresh still.
C1_Witness ==
    /\ LoggedIn /\ last.who \in Callers
    /\ last.obs = "Fresh" /\ last.ret = "nil"
    /\ SessionState(jwtCurrentExpire - now) = "Fresh"

\* C2: Stale means blocking refresh.  A call that read a remaining validity
\* of at most the sync threshold goes on under the exclusive lock only; if
\* the double-check under the lock did not find the token Fresh and the
\* refresh token was not dead, the call returns only after it has sent one
\* refreshSession request itself and got the answer, having called the hook
\* once with (false, false) and started no goroutine; and if it returns nil
\* the store holds the expiry of the access token the server sent.
C2_StaleBlocksOnRefresh ==
    /\ \A p \in SyncThreads :
          (th[p].obs = "Stale" /\ th[p].pc # "m_decide") => jwtLock.w = p
    /\ (/\ last.who \in SyncThreads /\ last.obs = "Stale"
        /\ last.chk # "Fresh" /\ last.ref # "dead") =>
          /\ last.calls = 1 /\ last.spawned = 0
          /\ last.hooks = << <<FALSE, FALSE>> >>
          /\ last.ret \in {"nil"} \cup RefreshFailures
          /\ last.ret = "nil" =>
                /\ last.got > 0
                /\ jwtCurrentExpire = last.got
                /\ auth.AccessJwt.exp = last.got

\* A caller has returned nil from a blocking refresh of a token that had
\* already expired, and the store holds a Fresh token.
C2_Witness ==
    /\ last.who \in Callers /\ last.obs = "Stale" /\ last.past
    /\ last.ret = "nil" /\ last.calls = 1
    /\ SessionState(jwtCurrentExpire - now) = "Fresh"

\* C3: NearExpiry never blocks the caller.  A call that read a remaining
\* validity between the two thresholds holds no lock, has sent no request,
\* and its next step, the return, is enabled in every state, whatever the
\* slot holds; it returns nil, whether it started the goroutine or not.
C3_NearExpiryNeverBlocks ==
    /\ \A p \in SyncThreads : th[p].obs = "NearExpiry" =>
          /\ th[p].pc = "m_decide"
          /\ jwtLock.w # p /\ p \notin jwtLock.r
          /\ th[p].calls = 0 /\ th[p].hooks = << >>
          /\ ENABLED (MaybeAsyncStart(p) \/ MaybeAsyncBusy(p))
    /\ (last.who \in SyncThreads /\ last.obs = "NearExpiry") =>
          /\ last.ret = "nil" /\ last.calls = 0 /\ last.hooks = << >>
          /\ last.spawned \in {0, 1}

\* A caller has returned from a NearExpiry call while the refreshSession
\* request of a background goroutine is still unanswered.
C3_Witness ==
    /\ last.who \in Callers /\ last.obs = "NearExpiry" /\ last.ret = "nil"
    /\ \E t \in Tasks : th[t].pc = "r_wait"

\* C4: a NearExpiry call with no refresh in flight starts exactly one
\* background goroutine and takes the slot; a background goroutine calls the
\* hook with (false, true) and nothing else, sends at most one request, one
\* if the refresh token is live, and when its refreshJWT returns nil the
\* store holds the expiry of the access token the server sent.
C4_NearExpiryStartsOneRefresh ==
    /\ [][\A p \in SyncThreads :
            (/\ th[p].obs = "NearExpiry" /\ th'[p] # th[p]
             /\ jwtAsyncRefresh.made /\ ActiveTasks = {}) =>
               /\ last'.who = p /\ last'.ret = "nil" /\ last'.spawned = 1
               /\ jwtAsyncRefresh'.n = jwtAsyncRefresh.n + 1
               /\ \E t \in Tasks :
                     /\ th'[t] = Frame("r_check")
                     /\ \A u \in Tasks \ {t} : th'[u] = th[u]]_vars
    /\ [](\A t \in Tasks :
            /\ th[t].hooks \in {<< >>, << <<FALSE, TRUE>> >>}
            /\ th[t].calls = IF th[t].pc \in {"r_wait", "r_lock", "r_write"}
                             THEN 1 ELSE 0)
    /\ [](last.who \in Tasks =>
            /\ last.hooks = << <<FALSE, TRUE>> >>
            /\ last.ref = "live" => last.calls = 1
            /\ last.ret = "nil" =>
                  /\ last.calls = 1 /\ last.got > 0
                  /\ jwtCurrentExpire = last.got
                  /\ auth.AccessJwt.exp = last.got)

\* The refreshJWT of a background goroutine has returned nil and the store
\* holds a token with more than the async threshold left.
C4_Witness ==
    /\ last.who \in Tasks /\ last.ret = "nil" /\ last.chk = "NearExpiry"
    /\ jwtCurrentExpire - now > jwtAsyncRefreshThreshold

\* C5: when the access token had expired as the call read it and the
\* refresh token is dead as refreshJWT tests it, the call returns
\* ErrSessionExpired having sent no request and started no goroutine, and no
\* step that returns ErrSessionExpired changes the credential store.
C5_BothExpiredFails ==
    /\ []((last.who \in SyncThreads /\ last.past /\ last.ref = "dead") =>
            /\ last.ret = "expired"
            /\ last.calls = 0 /\ last.spawned = 0)
    /\ [][last'.ret = "expired" => UNCHANGED store]_vars

\* A caller of a logged-in client got ErrSessionExpired with both expiries
\* in the past.
C5_Witness ==
    /\ LoggedIn /\ last.who \in Callers /\ last.past /\ last.ret = "expired"
    /\ jwtCurrentExpire - now < 0 /\ jwtRefreshExpire - now < 0

\* C6, as the specification states it: a call on a logged-in client whose
\* refresh token was dead when the call read the expiries returns
\* ErrSessionExpired and sends no request, whatever the access token's state.
C6_RefreshDeadAlwaysFails ==
    (last.who \in SyncThreads /\ last.dead) =>
        (last.ret = "expired" /\ last.calls = 0)

\* C6, as the code has it: the refresh token's expiry is looked at by
\* refreshJWT only.  A call that found the refresh token dead and the access
\* token Fresh or NearExpiry returns nil; any refreshJWT that finds the
\* refresh token dead returns ErrSessionExpired having sent no request;
\* ErrSessionExpired comes from that test alone, and reaches a caller on the
\* blocking path only.
C6_RefreshDeadFailsWhenStale ==
    /\ (/\ last.who \in SyncThreads /\ last.dead
        /\ last.obs \in {"Fresh", "NearExpiry"}) =>
          (last.ret = "nil" /\ last.calls = 0 /\ last.hooks = << >>)
    /\ last.ref = "dead" => (last.ret = "expired" /\ last.calls = 0)
    /\ last.ret = "expired" =>
          /\ last.ref = "dead"
          /\ last.who \in SyncThreads => last.obs = "Stale"

\* A caller of a logged-in client whose refresh token is dead has returned
\* nil from a call that found the access token Fresh.
C6_Witness ==
    /\ LoggedIn /\ last.who \in Callers /\ last.dead
    /\ last.obs = "Fresh" /\ last.ret = "nil"
    /\ jwtRefreshExpire - now < 0

\* C7: single flight.  At most one background goroutine exists at any time,
\* the slot holds one item for each, and a NearExpiry call that returns
\* while one exists starts nothing, changes neither the slot, nor the lock,
\* nor the store, nor any background goroutine, and returns nil.
C7_SingleFlight ==
    /\ [](/\ Cardinality(ActiveTasks) <= asyncRefreshCap
          /\ jwtAsyncRefresh.n = Cardinality(ActiveTasks))
    /\ [][\A p \in SyncThreads :
            (/\ th[p].obs = "NearExpiry" /\ th'[p] # th[p]
             /\ ActiveTasks # {}) =>
               /\ last' = Outcome(p, th[p], "nil")
               /\ last'.spawned = 0
               /\ UNCHANGED <<store, jwtAsyncRefresh, jwtLock>>
               /\ \A t \in Tasks : th'[t] = th[t]]_vars

\* A NearExpiry call has returned without starting anything, the slot being
\* taken by the one background goroutine.
C7_Witness ==
    /\ last.obs = "NearExpiry" /\ last.spawned = 0 /\ last.ret = "nil"
    /\ Cardinality(ActiveTasks) = 1 /\ jwtAsyncRefresh.n = 1

C9_BlockingRefreshesDeduplicate ==
    /\ \A p \in SyncThreads :
          th[p].pc \notin {"idle", "off", "sleep", "m_read", "m_decide"} =>
             jwtLock.w = p /\ th[p].obs = "Stale"
    /\ (last.who \in SyncThreads /\ last.chk = "Fresh") =>
          /\ last.obs = "Stale"
          /\ last.hooks = << <<TRUE, FALSE>> >>
          /\ last.calls = 0 /\ last.ret = "nil"
    /\ (last.who \in SyncThreads /\ last.chk \in {"NearExpiry", "Stale"}) =>
          last.hooks = << <<FALSE, FALSE>> >>

\* A caller that found the token expired has returned from a skipped
\* refresh: the store holds a Fresh token that another goroutine put there.
C9_Witness ==
    /\ last.who \in Callers /\ last.obs = "Stale" /\ last.chk = "Fresh"
    /\ last.hooks = << <<TRUE, FALSE>> >> /\ last.calls = 0
    /\ SessionState(jwtCurrentExpire - now) = "Fresh"

\* C10: a failed refresh leaves the credential store untouched.  A step in
\* which refreshJWT returns an error changes none of the tokens and expiries;
\* and when a blocking refresh of a call made after Login has failed, the
\* token is not Fresh, so the next call does not take the validAsync return.
C10_FailedRefreshKeepsStore ==
    /\ [][last'.ret \in RefreshFailures \cup {"expired"} => UNCHANGED store]_vars
    /\ []((/\ last.who \in SyncThreads /\ last.logged
           /\ last.ret \in RefreshFailures) =>
             (~ValidAsync(jwtCurrentExpire, now) /\ last.chk # "Fresh"))

\* A background refresh has failed on an answer that does not parse while
\* the store holds the tokens of the login.
C10_Witness ==
    /\ last.who \in Tasks /\ last.ret = "decode" /\ last.calls = 1
    /\ auth.AccessJwt.sid = 1 /\ jwtCurrentExpire = auth.AccessJwt.exp

\* Whether the stored tokens and expiries are those of one response: both
\* tokens of one session, each expiry the exp claim of its token.
OneResponse ==
    /\ auth.AccessJwt.sid = auth.RefreshJwt.sid
    /\ jwtCurrentExpire = GetExpirationTime(auth.AccessJwt)
    /\ jwtRefreshExpire = GetExpirationTime(auth.RefreshJwt)

\* C11, as the specification states it: whenever a goroutine reads the store
\* under the shared lock, in maybeRefreshJWT or in a background refreshJWT,
\* the tokens and the two expiries are those of one Login or one refresh
\* response.
C11_ReadersSeeOneResponse ==
    /\ [](jwtLock.r # {} => OneResponse)
    /\ [][(\E p \in SyncThreads : MaybeRead(p)) => OneResponse]_vars

\* C12: Login outcome classification.  When Login has returned an error:
\* if the server rejected the secret, the error is ErrLoginUnauthorized and
\* not ErrMasterCredentials; if the server accepted it with an access token
\* whose scope is not the app-password scope, the error is both; and an
\* accepted, parsable, app-password session never ends in an error.  Login
\* goes on past its checks only with such a session, stores its tokens,
\* handle and did as they came, and returns nil.
C12_LoginClassification ==
    /\ []((login.pc = "idle" /\ login.answer.given) =>
            /\ ~login.answer.accepted =>
                  /\ ErrorsIs(login.ret, ErrLoginUnauthorized)
                  /\ ~ErrorsIs(login.ret, ErrMasterCredentials)
            /\ (/\ login.answer.accepted
                /\ ParseOK(login.answer.sess.AccessJwt)
                /\ login.answer.sess.AccessJwt.scope # appPassScope) =>
                  /\ ErrorsIs(login.ret, ErrLoginUnauthorized)
                  /\ ErrorsIs(login.ret, ErrMasterCredentials)
            /\ ~(/\ login.answer.accepted /\ Decodes(login.answer.sess)
                 /\ login.answer.sess.AccessJwt.scope = appPassScope))
    /\ [](login.pc \in {"l_auth", "l_cur", "l_ref", "l_async", "l_go"} =>
            /\ login.answer.accepted /\ Decodes(login.answer.sess)
            /\ login.answer.sess.AccessJwt.scope = appPassScope
            /\ login.sess = login.answer.sess)
    /\ [][(login.pc = "l_auth" /\ login'.pc # "l_auth") =>
            /\ auth'.AccessJwt = login.answer.sess.AccessJwt
            /\ auth'.RefreshJwt = login.answer.sess.RefreshJwt
            /\ auth'.Handle = login.answer.sess.Handle
            /\ auth'.Did = login.answer.sess.Did]_vars
    /\ [][(login.pc = "l_go" /\ login'.pc # "l_go") =>
            (login'.pc = "in" /\ login'.ret = "nil")]_vars

\* Login has returned nil while the store holds the tokens, handle and did
\* of the session the server returned.
C12_Witness ==
    /\ LoggedIn /\ login.ret = "nil"
    /\ auth.AccessJwt.scope = appPassScope /\ auth.AccessJwt.sid = 1
    /\ auth.Handle = testHandle /\ auth.Did = testDid

\* The followers fed to the channel so far, and the whole collection.
Handed == cons.got \o followers.buf
AllFollowers == Flatten(pages)

\* Whether the goroutine has a follower in hand for the select.
InSelect == prod.pc = "emit" /\ prod.i <= Len(prod.res)

\* Whether a request of the goroutine has failed: err is set with no
\* follower of the page left in hand.
FetchFailed == prod.err # "none" /\ prod.i > Len(prod.res)

\* C13: complete streaming.  The followers fed to the channel are at all
\* times the front of the collection in page-then-record order; and when no
\* request failed and ctx was not cancelled, a reader that has drained both
\* channels holds exactly the collection and read nil from errc, both
\* channels are closed and errc never carried a value.
C13_CompleteStreaming ==
    /\ IsPrefix(Handed, AllFollowers)
    /\ (cons.pc = "done" /\ ~ctxDone /\ prod.err = "none") =>
          /\ cons.got = AllFollowers /\ cons.err = "nil"
          /\ followers.closed /\ followers.buf = << >>
          /\ errc.closed /\ errc.buf = << >> /\ prod.errs = 0
          /\ prod.fetches = Len(pages)

\* The reader has drained two full pages, more than the channel holds, and
\* read nil.
C13_Witness ==
    /\ cons.pc = "done" /\ cons.err = "nil" /\ ~ctxDone
    /\ Len(pages) = MaxPages /\ Len(cons.got) = MaxPages * MaxPageLen
    /\ Len(cons.got) > followersCap

\* C14, as the specification states it: a reader that cancels after its
\* first follower and drains the channel ends with fewer followers than the
\* collection has and reads context.Canceled from errc.
C14_CancelAfterFirst ==
    (cons.pc = "done" /\ cons.cancelAt = 1) =>
        (Len(cons.got) < Len(AllFollowers) /\ cons.err = "canceled")

\* C14, as the code has it: such a reader ends with a front of the
\* collection; it reads nil exactly when the goroutine ran to the end, and
\* then it holds the whole collection; when the goroutine took the
\* ctx.Done() case, the reader holds fewer followers than the collection has
\* and reads context.Canceled.
C14_CancelAfterFirstOrComplete ==
    (cons.pc = "done" /\ cons.cancelAt = 1) =>
        /\ IsPrefix(cons.got, AllFollowers)
        /\ cons.err \in {"nil", "canceled", "transport"}
        /\ cons.err = "nil" <=> prod.err = "none"
        /\ cons.err = "nil" => cons.got = AllFollowers
        /\ (prod.err = "canceled" /\ prod.i <= Len(prod.res)) =>
              (Len(cons.got) < Len(AllFollowers) /\ cons.err = "canceled")

\* The reader cancelled after its first follower and read context.Canceled
\* with a part of the collection.
C14_Witness ==
    /\ cons.pc = "done" /\ cons.cancelAt = 1 /\ cons.err = "canceled"
    /\ prod.i <= Len(prod.res)
    /\ Len(cons.got) < Len(AllFollowers)

\* C15, as the specification states it: once ctx is cancelled the goroutine
\* feeds at most one more follower and sends at most one more request.
C15_BoundedOverrun == prod.over <= 1 /\ prod.overFetch <= 1

\* C16: a failed request ends the stream.  After it the goroutine only puts
\* the error on errc and closes the channels: it has sent exactly one
\* request per page fetched plus the failed one, the followers fed are
\* exactly those of the pages before the failed one, the error is the only
\* value errc gets, and in the end both channels are closed.
C16_FetchFailureEndsStream ==
    FetchFailed =>
        /\ prod.pc \in {"senderr", "close", "close_errc", "done"}
        /\ prod.fetches = prod.cursor + 1
        /\ prod.cursor < Len(pages)
        /\ Handed = Flatten(SubSeq(pages, 1, prod.cursor))
        /\ prod.errs = IF prod.pc = "senderr" THEN 0 ELSE 1
        /\ prod.errs = 1 => (errc.buf = <<prod.err>> \/ cons.err = prod.err)
        /\ prod.pc = "done" => (followers.closed /\ errc.closed)

\* The reader got the first page whole and then the error of the second
\* request.
C16_Witness ==
    /\ cons.pc = "done" /\ cons.err = "transport"
    /\ prod.cursor = 1 /\ Len(pages) = MaxPages
    /\ cons.got = pages[1] /\ Len(pages[1]) = MaxPageLen /\ Len(pages[2]) > 0

\* C17: the terminal-signal protocol.  errc gets at most one error; when
\* something went wrong the error is on errc before followers is closed;
\* followers is closed before errc, and both are closed when the goroutine
\* has ended; and a reader either walks away or gets to the end of both
\* channels.
C17_TerminalSignal ==
    /\ [](prod.errs <= 1 /\ Len(errc.buf) <= errcCap)
    /\ []((followers.closed /\ prod.err # "none") => prod.errs = 1)
    /\ [](errc.closed => followers.closed)
    /\ [](prod.pc = "done" => (followers.closed /\ errc.closed))
    /\ <>(cons.pc \in {"done", "gone"})

\* The reader drained the channel and read context.Canceled from errc, and
\* both channels are closed.
C17_Witness ==
    /\ cons.pc = "done" /\ cons.err = "canceled" /\ prod.errs = 1
    /\ followers.closed /\ errc.closed /\ errc.buf = << >>

C19_CancellableBackpressure ==
    (InSelect /\ Len(followers.buf) = followersCap
       /\ cons.pc = "gone" /\ ctxDone)
    ~> (/\ prod.pc = "done" /\ errc.buf = <<"canceled">>
        /\ followers.closed /\ errc.closed
        /\ Len(followers.buf) = followersCap)

\* The goroutine has ended on the ctx.Done() case while the channel was full
\* and nobody was reading.
C19_Witness ==
    /\ cons.pc = "gone" /\ ctxDone /\ prod.pc = "done"
    /\ prod.err = "canceled" /\ prod.i <= Len(prod.res)
    /\ Len(followers.buf) = followersCap /\ errc.buf = <<"canceled">>

\* Whether Login has ever started the refresher.
NeverLoggedIn == th[Refresher].pc = "off"

\* C20: Close stops the refresher without deadlock.  A Close on a logged-in
\* client, once it stands in its send, returns in the end, every request in
\* flight returning; when it has returned the refresher has ended,
\* jwtRefresherStop is nil again, and the refresher takes no further step,
\* so it calls maybeRefreshJWT no more; and a Close on a client that never
\* logged in returns in the step that calls it.
C20_CloseStopsRefresher ==
    /\ [](NeverLoggedIn => ~jwtRefresherStop.made)
    /\ [][(closer.pc = "idle" /\ closer'.pc # "idle" /\ NeverLoggedIn)
             => closer'.pc = "returned"]_vars
    /\ []((closer.pc = "returned" /\ closer.at = "in") =>
             (th[Refresher].pc = "stopped" /\ jwtRefresherStop = NilStop))
    /\ [][(closer.pc = "returned" /\ closer.at = "in")
             => th'[Refresher] = th[Refresher]]_vars
    /\ (closer.pc = "send" /\ closer.at = "in") ~> (closer.pc = "returned")

\* Close has returned on a client whose refresher had gone round its loop
\* more than once.
C20_Witness ==
    /\ closer.pc = "returned" /\ closer.at = "in"
    /\ th[Refresher].pc = "stopped"
    /\ now > 1 /\ issued = MaxIssued

\* The goroutines whose refreshSession request is in flight.
InFlight == {p \in Threads : th[p].pc = "r_wait"}

\* C21, as the specification states it: once Close has returned on a
\* logged-in client the store holds no token any more.
C21_CloseDestroysCredentials ==
    (closer.pc = "returned" /\ closer.at = "in") =>
        (auth.AccessJwt = NoToken /\ auth.RefreshJwt = NoToken)

\* C27, as the specification states it: no goroutine holds jwtLock, shared
\* or exclusive, while its refreshSession request is in flight.
C27_NoNetworkUnderLock ==
    \A p \in InFlight : jwtLock.w # p /\ p \notin jwtLock.r

\* C27, as the code has it: the background path holds no lock while its
\* request is in flight and takes the exclusive lock for the swap alone; the
\* blocking path holds the exclusive lock from before refreshJWT until it
\* returns, the request included; and nobody holds the shared lock during a
\* request.
C27_NoNetworkUnderLockInBackground ==
    /\ \A p \in InFlight :
          /\ p \notin jwtLock.r
          /\ IsAsync(p) => jwtLock.w # p
          /\ ~IsAsync(p) => jwtLock.w = p
    /\ \A p \in Tasks : jwtLock.w = p => th[p].pc = "r_write"
    /\ \A p \in SyncThreads :
          jwtLock.w = p <=>
              th[p].pc \in {"r_check", "r_exp", "r_expchk", "r_copy",
                            "r_wait", "r_write"}

\* A background request and a blocking request are in flight, the blocking
\* caller holding the exclusive lock.
C27_Witness ==
    /\ \E p \in Tasks : p \in InFlight
    /\ \E p \in SyncThreads : p \in InFlight /\ jwtLock.w = p

\* C28, as the specification states it: the tokens and the expiries are
\* written only while the exclusive lock is held.
C28_WritesUnderExclusiveLock ==
    [][store' # store => jwtLock.w # NoThread]_vars

\* C29: the slot is always freed.  The slot holds exactly one item per
\* running background goroutine; every background goroutine ends, however
\* its refreshJWT returned, and frees the slot as it ends; and a caller that
\* read NearExpiry while no background goroutine runs takes the send case
\* and starts one.
C29_SlotAlwaysReleased ==
    /\ [](jwtAsyncRefresh.n = Cardinality(ActiveTasks))
    /\ \A t \in Tasks : (th[t].pc # "off") ~> (th[t].pc = "off")
    /\ [](\A p \in SyncThreads :
            (/\ th[p].pc = "m_decide"
             /\ ~th[p].validAsync /\ th[p].validSync
             /\ jwtAsyncRefresh.made /\ ActiveTasks = {})
            => (ENABLED MaybeAsyncStart(p) /\ ~ENABLED MaybeAsyncBusy(p)))

\* A background refreshJWT has just returned ErrSessionExpired and its
\* goroutine is about to free the slot.
C29_Witness ==
    \E t \in Tasks :
        /\ th[t].pc = "t_release" /\ jwtAsyncRefresh.n = 1
        /\ last.who = t /\ last.ret = "expired"

\* C30, as the specification states it: no two refreshSession requests made
\* with the same refresh token are in flight at the same time.
C30_OneRefreshInFlight ==
    \A p, q \in InFlight : th[p].refClient = th[q].refClient => p = q

\* C26: ResolveFollowers drains the whole stream.  It returns only when
\* the followers channel is closed and drained and errc has been read; it
\* returns what it read from errc; and when that is nil, the goroutine has
\* run to the end without an error and p.Followers holds every follower fed
\* to the channel, that is the whole collection, in order, whether
\* p.FollowerCount was smaller or larger than their number.
C26_ResolveAllDrains ==
    (cons.all /\ cons.pc = "done") =>
        /\ followers.closed /\ followers.buf = << >>
        /\ cons.ret = cons.err
        /\ cons.ret = "nil" =>
              /\ prod.err = "none" /\ prod.pc = "done" /\ errc.closed
              /\ cons.Followers.set
              /\ cons.Followers.items = cons.got
              /\ cons.Followers.items = AllFollowers
              /\ cons.cap >= Len(AllFollowers)

\* ResolveFollowers has returned nil with more followers than
\* p.FollowerCount announced.
C26_Witness ==
    /\ cons.all /\ cons.pc = "done" /\ cons.ret = "nil"
    /\ cons.hint > 0 /\ Len(cons.Followers.items) > cons.hint

\* The time the stored access token is still good for.
Remaining == jwtCurrentExpire - now

\* Whether the refresher is in its loop.
RefresherRuns == th[Refresher].pc \notin {"off", "ack", "stopped"}

\* The premises on the server: every access token it issues is good for
\* longer than jwtAsyncRefreshThreshold, and no refreshJWT returns an error.
ServerObliges ==
    /\ login.pc \in {"l_auth", "l_cur", "l_ref", "l_async", "l_go"} =>
          login.current - now > jwtAsyncRefreshThreshold
    /\ \A p \in Threads :
          th[p].pc \in {"r_lock", "r_write"} =>
              GetExpirationTime(th[p].sess.AccessJwt) - now
                  > jwtAsyncRefreshThreshold
    /\ last.ret \in {"none", "nil"}

\* C25: idle sessions are refreshed ahead of use.  On a client nobody calls,
\* if the server obliges, then as long as the refresher runs the stored
\* access token is never Stale, let alone expired; at the end of every
\* minute it is Fresh again; and the refresher never refreshes on the
\* blocking path, finds the slot taken, or finds in refreshJWT that somebody
\* else has refreshed.
C25_IdleSessionStaysFresh ==
    []ServerObliges =>
        /\ []((LoggedIn /\ RefresherRuns) =>
                 Remaining > jwtSyncRefreshThreshold)
        /\ []((LoggedIn /\ RefresherRuns /\ Quiet) =>
                 Remaining > jwtAsyncRefreshThreshold)
        /\ [](\A p \in Tasks \cup {Refresher} :
                 /\ ~ENABLED MaybeSync(p)
                 /\ ~ENABLED MaybeAsyncBusy(p)
                 /\ ~ENABLED RefreshSkip(p))

\* The background goroutine the refresher started on a NearExpiry token has
\* just stored a new one.
C25_Witness ==
    \E t \in Tasks :
        /\ last.who = t /\ last.ret = "nil" /\ last.got = jwtCurrentExpire
        /\ LoggedIn /\ th[Refresher].pc = "sleep" /\ now > 1
        /\ Remaining > jwtAsyncRefreshThreshold

\* C22, as the specification states it: the client handed to a CustomCall
\* callback keeps the credentials it held when the callback was invoked,
\* whatever Login or refresh completes afterwards.
C22_HandleIsSnapshot ==
    \A p \in Callers :
        call[p].pc \in {"callback", "kept"} =>
            call[p].dangling.Auth = call[p].built

\* C23, as the specification states it: when a CustomCall that began on a
\* logged-in client invokes the callback, the access token of the client it
\* hands over has not expired.
C23_CustomCallHandsValidToken ==
    \A p \in Callers :
        (call[p].op = "custom" /\ call[p].pc = "callback" /\ call[p].logged)
            => ~call[p].stale

\* C24, as the specification states it: an operation on a logged-in client
\* that has sent an authenticated request, or invoked the CustomCall
\* callback, has called maybeRefreshJWT before.
C24_EnsureValidPrecedesCalls ==
    \A p \in Callers :
        (call[p].pc \in {"sent", "callback"} /\ call[p].logged)
            => call[p].ensured

C31_NoSilentRetries ==
    /\ [](\A p \in Threads : th[p].calls <= 1 /\ th[p].spawned <= 1)
    /\ [](last.calls <= 1 /\ last.spawned <= 1)
    /\ [][\A p \in Threads :
            th'[p].calls # th[p].calls =>
                \/ th[p].pc = "r_copy" /\ th[p].calls = 0 /\ th'[p].calls = 1
                \/ th'[p].calls = 0 /\ last'.who = p]_vars
    /\ [][\A p \in Threads :
            (th[p].pc = "r_wait" /\ th'[p] # th[p]) =>
                \/ th'[p].pc \in {"r_lock", "r_write"} /\ th'[p].calls = 1
                \/ /\ last'.who = p /\ last'.ret \in RefreshFailures
                   /\ last'.calls = 1
                   /\ th'[p] = Returned(p)]_vars
    /\ [](last.ret \in RefreshFailures =>
            /\ last.calls = 1
            /\ th[last.who].pc \in {"idle", "sleep", "t_release"}
            /\ th[last.who].calls = 0)

\* A caller on the blocking path got the transport's error back, having
\* sent one request, and is back in its own code; the token is stale still.
C31_Witness ==
    /\ last.who \in Callers /\ last.obs = "Stale" /\ last.ret = "transport"
    /\ last.calls = 1 /\ th[last.who].pc = "idle"
    /\ jwtCurrentExpire - now <= jwtSyncRefreshThreshold

\* C36: background refresh failures are not surfaced.  The call that
\* starts a background goroutine returns nil in the step that starts it,
\* and no call that found the token NearExpiry returns anything else.  The
\* step in which the refreshJWT of a background goroutine returns an error
\* (the transport's, a decode error or ErrSessionExpired) leaves the
\* credential store, the slot and the frame of every caller and of the
\* refresher as they were; the goroutine has called the hook once, with
\* (false, true), holds no lock and can free the slot; and the step that
\* frees it ends the goroutine and changes nothing else.
C36_BackgroundFailuresNotSurfaced ==
    /\ [](last.spawned = 1 => (last.who \in SyncThreads /\ last.ret = "nil"))
    /\ []((last.who \in SyncThreads /\ last.obs = "NearExpiry")
             => last.ret = "nil")
    /\ [][\A t \in Tasks :
            (last'.who = t /\ last'.ret # "nil") =>
                /\ UNCHANGED <<store, jwtAsyncRefresh, login, call>>
                /\ \A p \in Threads \ {t} : th'[p] = th[p]
                /\ last'.hooks = << <<FALSE, TRUE>> >>
                /\ th'[t] = Frame("t_release")
                /\ jwtLock'.w # t /\ t \notin jwtLock'.r]_vars
    /\ [](\A t \in Tasks : th[t].pc = "t_release" => ENABLED TaskRelease(t))
    /\ [][\A t \in Tasks :
            (th[t].pc = "t_release" /\ th'[t] # th[t]) =>
                /\ th'[t] = Frame("off")
                /\ jwtAsyncRefresh'.n = jwtAsyncRefresh.n - 1
                /\ last' = NoOutcome
                /\ UNCHANGED <<store, jwtLock, login, call>>
                /\ \A p \in Threads \ {t} : th'[p] = th[p]]_vars

\* The refreshJWT of a background goroutine has returned ErrSessionExpired
\* while the refresher, which started it, sleeps in its select.
C36_Witness ==
    /\ last.who \in Tasks /\ last.ret = "expired"
    /\ th[last.who].pc = "t_release"
    /\ th[Refresher].pc = "sleep"

\* C35, as the specification states it: no lost update.  Whenever
\* refreshJWT writes the answer of the server into the store, the request
\* that brought it was sent with the refresh token that the store holds
\* just before the write.
C35_NoLostUpdate ==
    [][\A p \in Threads :
          (th[p].pc = "r_write" /\ th'[p].pc # "r_write") =>
              th[p].refClient = auth.RefreshJwt]_vars

\* The refresher goroutines that have been started and have not returned.
RunningRefreshers == {p \in Refreshers : th[p].pc \notin {"off", "stopped"}}

\* C33, as the specification states it: one periodic checker per session.
\* Whatever Login and Close calls were made on the client, at most one
\* refresher goroutine is running.
C33_OneCheckerPerSession == Cardinality(RunningRefreshers) <= 1

\* The errors Login returns.
LoginFailures == {"unauthorized", "master", "decode"}

\* C32: a failed Login changes nothing.  The step that sends createSession
\* and the step in which Login returns an error (the server's rejection, the
\* veto of master credentials, a token that does not decode) leave the
\* credentials, both expiries, the slot, the stop channel, the lock and every
\* goroutine as they were, on a client that is logged in as on one that
\* never was; Login goes on to its writes only with tokens that decode and
\* carry the app-password scope, and the store never holds any other.
C32_FailedLoginChangesNothing ==
    /\ [][(login.pc = "l_wait" /\ login'.pc = "idle") =>
            /\ login'.ret \in LoginFailures
            /\ UNCHANGED <<store, jwtAsyncRefresh, jwtRefresherStop, jwtLock,
                           th, wakeAt, closer>>]_vars
    /\ [][(login.pc \in {"idle", "in"} /\ login'.pc = "l_wait") =>
            UNCHANGED <<store, jwtAsyncRefresh, jwtRefresherStop, jwtLock,
                        th, wakeAt, closer>>]_vars
    /\ [](login.pc \in {"l_auth", "l_cur", "l_ref", "l_async", "l_go"} =>
            /\ login.sess.AccessJwt.scope = appPassScope
            /\ ParseOK(login.sess.AccessJwt) /\ ParseOK(login.sess.RefreshJwt))
    /\ [](auth # NilAuth =>
            /\ auth.AccessJwt.scope = appPassScope
            /\ ParseOK(auth.AccessJwt) /\ ParseOK(auth.RefreshJwt))

\* On a logged-in client with a background refresh under way, Login was
\* called with the master password, which the server accepted, and has
\* returned the veto; the store holds the first session.
C32_Witness ==
    /\ login.pc = "idle" /\ login.ret = "master" /\ login.answer.accepted
    /\ auth # NilAuth /\ auth.AccessJwt.sid = 1
    /\ ActiveTasks # {}
    /\ RunningRefreshers = {Refresher}

\* C34: the cursor protocol.  The first request carries the empty cursor;
\* every later one carries the cursor of the answer just before it, which
\* had one; no request follows an answer without a cursor; a page that is
\* fed, be it empty, is followed by the next request if its answer had a
\* cursor and by the end of the stream if not; no cursor is asked twice; and
\* a stream that ends without error has sent as many requests as the
\* collection has pages, one for each page in the server's order.
C34_CursorProtocol ==
    /\ [](LET a == prod.asked
              g == prod.gave
          IN /\ prod.fetches = Len(a)
             /\ Len(g) <= Len(a) /\ Len(a) <= Len(g) + 1
             /\ Len(a) >= 1 => a[1] = 0
             /\ \A k \in 2..Len(a) : g[k - 1].set /\ a[k] = g[k - 1].at
             /\ \A j, k \in 1..Len(a) : j # k => a[j] # a[k]
             /\ (prod.pc = "done" /\ prod.err = "none") =>
                    /\ Len(a) = Len(pages) /\ Len(g) = Len(pages)
                    /\ ~g[Len(g)].set
                    /\ \A k \in 1..Len(a) : a[k] = k - 1)
    /\ [][(prod.pc = "emit" /\ prod.i > Len(prod.res) /\ prod' # prod) =>
            IF prod.resCursor.set
            THEN prod'.pc = "fetch" /\ prod'.cursor = prod.resCursor.at
            ELSE prod'.pc = "close"]_vars

\* The stream of a collection of two pages, the first of them empty, has
\* ended without error after two requests.
C34_Witness ==
    /\ prod.pc = "done" /\ prod.err = "none"
    /\ Len(pages) = 2 /\ pages[1] = << >> /\ pages[2] # << >>
    /\ prod.asked = <<0, 1>>

\* C39: p.Followers is written by a successful ResolveFollowers only.  The
\* field changes in one step alone: the one in which ResolveFollowers, the
\* followers channel closed and drained, reads nil from errc and returns nil,
\* and then to the list it collected; the goroutine of the streaming call and
\* a reader of the stream never change it.  ResolveFollowers returns nil
\* exactly when the stream ended without error, and otherwise the error of
\* the stream, the fetch failure or the cancellation.
C39_FollowersWrittenOnSuccessOnly ==
    /\ [][cons'.Followers # cons.Followers =>
            /\ cons.all /\ cons.pc = "errc" /\ cons'.pc = "done"
            /\ cons'.ret = "nil" /\ prod.err = "none"
            /\ followers.closed /\ followers.buf = << >>
            /\ cons'.Followers = [set |-> TRUE, items |-> cons.got]]_vars
    /\ []((cons.all /\ cons.pc = "done") =>
            /\ cons.ret = "nil" <=> prod.err = "none"
            /\ cons.ret # "nil" =>
                  /\ cons.ret = prod.err
                  /\ cons.ret \in {"transport", "canceled"}
                  /\ cons.Followers \in PriorFollowers)
    /\ [](~cons.all => cons.Followers \in PriorFollowers)

\* ResolveFollowers has returned the error of a failed fetch, having
\* collected the followers of the page before; p.Followers is the list that
\* an earlier call had left.
C39_Witness ==
    /\ cons.all /\ cons.pc = "done" /\ cons.ret = "transport"
    /\ cons.got # << >>
    /\ cons.Followers = [set |-> TRUE, items |-> <<0>>]

\* C38: maybeRefreshJWT is deadlock-free.  With the refresher, a caller of
\* CustomCall, the background goroutines and one Close at work on the
\* logged-in client, every request returning: every call of maybeRefreshJWT
\* returns, every background goroutine gets the locks it asks for, frees the
\* slot and ends, and CustomCall gets its read lock and reaches the callback:
\* whatever has happened, each of them is out of the call again later.
C38_EnsureValidDeadlockFree ==
    /\ \A p \in SyncThreads :
          []<>(th[p].pc \in {"idle", "off", "sleep", "ack", "stopped"})
    /\ \A t \in Tasks : []<>(th[t].pc = "off")
    /\ \A p \in CloseCallers :
          []<>(call[p].pc \notin {"ensure", "deref", "unlock"})

\* The caller of CustomCall waits for the exclusive lock, which the
\* refresher holds while its refreshSession request is unanswered, a
\* background goroutine waits for the answer to its own, and Close stands
\* in its send.
C38_Witness ==
    /\ th[Refresher].pc = "r_wait" /\ jwtLock.w = Refresher
    /\ \E p \in CloseCallers :
          /\ call[p].pc = "ensure"
          /\ th[p].pc = "m_decide" /\ th[p].obs = "Stale"
    /\ \E t \in Tasks : th[t].pc = "r_wait"
    /\ closer.pc = "send"

====
